---- MODULE Spec2Model ----
(***************************************************************************)
(* WebBoost analyzer: the scoring and recommendation engine                *)
(* (src/webboost/scoring.py, analysis.py, recommendations.py, utils.py,    *)
(* constants.py) and the analyze() pipeline that drives it (core.py).      *)
(*                                                                         *)
(* Number representation.  Python floats are modelled in fixed point:      *)
(*   - a score is an integer number of hundredths of a point (Pts(50) is   *)
(*     the score 50.0);                                                    *)
(*   - a weight is an integer number of ten-thousandths (0.15 is 1500);    *)
(*   - keyword_density is an integer number of hundredths of a percent;    *)
(*   - load_time is an integer number of milliseconds.                     *)
(* Divisions that are not exact in hundredths are floored.                 *)
(*                                                                         *)
(* Page representation.  Regular-expression scans and DOM queries are      *)
(* library calls; text, DOM and markup are records of the counts those     *)
(* calls return (text.words is len(text.split()), soup.img is              *)
(* len(soup.find_all('img')), ...).                                        *)
(*                                                                         *)
(* Python dictionaries are functions from string keys; d.get(k, default)   *)
(* is Get(d, k, default) and {} is EmptyDict.                              *)
(***************************************************************************)
EXTENDS Integers, Sequences, FiniteSets, TLC

VARIABLES
    weights,              \* constants.SCORING_WEIGHTS as loaded
    pc,                   \* position of the process / of analyze()
    url,                  \* self.url (scheme and path of the analysed URL)
    soup,                 \* self.soup   (None until a loader parses the page)
    text,                 \* self.text
    html,                 \* self.html
    performance_metrics,  \* self.performance_metrics
    load_time,            \* self.load_time
    web,                  \* the page the server returns and the collectors' world
    failed,               \* collectors that raised inside asyncio.gather
    aux,                  \* the five dictionaries after lines 185-189
    sig,                  \* extractor outputs and detail dictionaries
    scores,               \* the scores dictionary
    free_data,            \* results['free_data_sources']
    overall_score,        \* results['overall_score']
    recommendations,      \* results['recommendations'] / the list returned
    run,                  \* number of analyze() calls started on this analyzer
    hist                  \* history: loaders that completed, previous bundle

vars == <<weights, pc, url, soup, text, html, performance_metrics, load_time,
          web, failed, aux, sig, scores, free_data, overall_score,
          recommendations, run, hist>>

-----------------------------------------------------------------------------
(* Generic helpers *)

\* Python None, for the fields that hold a dictionary or a parsed page.
None == [none |-> TRUE]

IsNone(x) == "none" \in DOMAIN x

EmptyDict == [k \in {} |-> 0]

Get(d, k, default) == IF k \in DOMAIN d THEN d[k] ELSE default

Pts(n) == n * 100

Min(a, b) == IF a <= b THEN a ELSE b

Max(a, b) == IF a >= b THEN a ELSE b

Abs(a) == IF a >= 0 THEN a ELSE 0 - a

RECURSIVE SumSeq(_)
SumSeq(s) == IF s = << >> THEN 0 ELSE Head(s) + SumSeq(Tail(s))

\* Python round(): to the nearest multiple of unit, a tie to the even multiple.
RoundHalfEven(x, unit) ==
    LET q == x \div unit
        r == x % unit
    IN  IF 2 * r < unit THEN q
        ELSE IF 2 * r > unit THEN q + 1
        ELSE IF q % 2 = 0 THEN q ELSE q + 1

-----------------------------------------------------------------------------
(* constants.py *)

\* Key order of the scores dictionary built in analyze().
CriteriaOrder ==
    << "readability", "informativeness", "engagement", "uniqueness",
       "discoverability", "ad_experience", "social_integration",
       "layout_quality", "seo_keywords" >>

Criteria == { CriteriaOrder[i] : i \in 1..Len(CriteriaOrder) }

SCORING_WEIGHTS ==
    [ informativeness    |-> 2000,
      readability        |-> 1500,
      engagement         |-> 1500,
      uniqueness         |-> 1500,
      layout_quality     |-> 1000,
      discoverability    |-> 1000,
      seo_keywords       |-> 500,
      ad_experience      |-> 500,
      social_integration |-> 500 ]

RECURSIVE SumOver(_, _)
SumOver(f, S) ==
    IF S = {} THEN 0
    ELSE LET k == CHOOSE x \in S : TRUE IN f[k] + SumOver(f, S \ {k})

\* assert abs(sum(SCORING_WEIGHTS.values()) - 1.0) < 0.001
WeightsValidMutant(w) == SumOver(w, DOMAIN w) - 10000 < 10

WeightsValid(w) == Abs(SumOver(w, DOMAIN w) - 10000) < 10

-----------------------------------------------------------------------------
(* recommendations.py *)

CRITICAL == "CRITICAL"
HIGH == "HIGH"
MEDIUM == "MEDIUM"
LOW == "LOW"
EXCELLENT == "EXCELLENT"

Tiers == {CRITICAL, HIGH, MEDIUM, LOW, EXCELLENT}

\* _get_priority_and_emoji: the priority prefix for a score
PriorityMutant(score) ==
    IF score <= Pts(50) THEN CRITICAL
    ELSE IF score < Pts(70) THEN HIGH
    ELSE IF score < Pts(85) THEN MEDIUM
    ELSE IF score < Pts(95) THEN LOW
    ELSE EXCELLENT

Priority(score) ==
    IF score < Pts(50) THEN CRITICAL
    ELSE IF score < Pts(70) THEN HIGH
    ELSE IF score < Pts(85) THEN MEDIUM
    ELSE IF score < Pts(95) THEN LOW
    ELSE EXCELLENT

\* The if/elif chain that every criterion branch of
\* _get_criterion_recommendations repeats: which of its five templates is used.
WordingBranch(score) ==
    IF score < Pts(50) THEN 1
    ELSE IF score < Pts(70) THEN 2
    ELSE IF score < Pts(85) THEN 3
    ELSE IF score < Pts(95) THEN 4
    ELSE 5

\* The five templates of each criterion, in the order of the chain.
Templates ==
    [ readability |->
        << "Readability is poor", "Improve readability", "Good readability",
           "Readability is very good", "Excellent readability" >>,
      informativeness |->
        << "Content lacks depth", "Add more depth to content",
           "Content is informative", "Very informative content",
           "Exceptionally comprehensive content" >>,
      engagement |->
        << "Content is not engaging", "Improve engagement", "Good engagement",
           "Very engaging content", "Highly engaging content" >>,
      uniqueness |->
        << "Content lacks originality", "Improve uniqueness",
           "Content is fairly unique", "Good originality",
           "Highly original content" >>,
      discoverability |->
        << "Poor navigation", "Improve navigation", "Navigation is good",
           "Very good navigation", "Excellent navigation structure" >>,
      ad_experience |->
        << "Too many intrusive ads", "Ad experience needs improvement",
           "Ad placement acceptable", "Good ad balance",
           "Excellent ad experience" >>,
      social_integration |->
        << "Poor social integration", "Improve social features",
           "Good social presence", "Strong social integration",
           "Excellent social integration" >>,
      layout_quality |->
        << "Layout needs major work", "Improve layout and design",
           "Good layout", "Very good layout", "Excellent layout and design" >>,
      seo_keywords |->
        << "Poor SEO optimization", "SEO needs improvement", "SEO is good",
           "Very good SEO", "Excellent SEO optimization" >> ]

\* The tier each template position is written for.
TemplateTier == << CRITICAL, HIGH, MEDIUM, LOW, EXCELLENT >>

\* f"{score:.1f}": the score as printed in a message, in tenths of a point.
Fmt1(score) == RoundHalfEven(score, 10)

NoValue == 0 - 1

\* A message f"{priority}: {wording} ({score:.1f}/100) ..." is the record of its
\* prefix, its wording and the printed score (NoValue when it prints none).
Msg(prefix, wording, value) == [tier |-> prefix, text |-> wording, val |-> value]

\* _get_criterion_recommendations(criterion, score, free_data)
CriterionRecs(criterion, score) ==
    IF criterion \in DOMAIN Templates
    THEN << Msg(Priority(score), Templates[criterion][WordingBranch(score)],
                Fmt1(score)) >>
    ELSE << >>

\* One optional message: the list a rule appends to recs.
One(cond, m) == IF cond THEN << m >> ELSE << >>

Plain(prefix, wording) == Msg(prefix, wording, NoValue)

\* Keyword density rule (lines 176-185); density in hundredths of a percent.
KeywordRule(fd) ==
    LET keyword_density == Get(Get(fd, "keyword_analysis", EmptyDict),
                               "keyword_density", 0)
    IN  IF keyword_density < 50
            THEN << Plain(HIGH, "Keyword density too low") >>
        ELSE IF keyword_density < 100
            THEN << Plain(MEDIUM, "Keyword density is low") >>
        ELSE IF keyword_density > 300
            THEN << Plain(MEDIUM, "Keyword density too high") >>
        ELSE IF keyword_density > 250
            THEN << Plain(LOW, "Keyword density is slightly high") >>
        ELSE << >>

\* Internal linking rule (lines 187-196)
InternalLinksRule(fd) ==
    LET internal_links == Get(Get(fd, "internal_linking", EmptyDict),
                              "internal_links", 0)
    IN  IF internal_links < 3
            THEN << Plain(CRITICAL, "Very few internal links") >>
        ELSE IF internal_links < 5
            THEN << Plain(HIGH, "Low internal links") >>
        ELSE IF internal_links < 10
            THEN << Plain(MEDIUM, "Could use more internal links") >>
        ELSE IF internal_links > 50
            THEN << Plain(LOW, "Many internal links") >>
        ELSE << >>

\* External linking rule (lines 198-203)
ExternalLinksRule(fd) ==
    LET external_links == Get(Get(fd, "internal_linking", EmptyDict),
                              "external_links", 0)
    IN  IF external_links < 2
            THEN << Plain(MEDIUM, "Add 3-5 external links") >>
        ELSE IF external_links > 30
            THEN << Plain(LOW, "Many external links") >>
        ELSE << >>

HttpsMessage == Plain(CRITICAL, "Site not using HTTPS")

\* HTTPS rule (lines 205-207)
HttpsRuleMutant(fd) ==
    One("security" \in DOMAIN fd /\ ~Get(fd["security"], "https", FALSE),
        HttpsMessage)

HttpsRule(fd) ==
    One(~Get(Get(fd, "security", EmptyDict), "https", FALSE), HttpsMessage)

\* Citations rule (lines 209-216)
CitationsRule(fd) ==
    LET citation_count == Get(Get(fd, "citation_analysis", EmptyDict),
                              "citation_count", 0)
    IN  IF citation_count < 3
            THEN << Plain(HIGH, "Few citations found") >>
        ELSE IF citation_count < 5
            THEN << Plain(MEDIUM, "Add 2-3 more citations") >>
        ELSE IF citation_count > 20
            THEN << Plain(LOW, "Excellent use of citations") >>
        ELSE << >>

\* Word count rule (lines 218-227)
WordCountRule(fd) ==
    LET word_count == Get(Get(fd, "content_stats", EmptyDict), "word_count", 0)
    IN  IF word_count < 300
            THEN << Plain(CRITICAL, "Content too short") >>
        ELSE IF word_count < 600
            THEN << Plain(HIGH, "Content is short") >>
        ELSE IF word_count < 1000
            THEN << Plain(MEDIUM, "Content could be longer") >>
        ELSE IF word_count > 3000
            THEN << Plain(LOW, "Long-form content") >>
        ELSE << >>

\* Headers rule (lines 229-236)
HeadersRule(fd) ==
    LET header_count == Get(Get(fd, "content_stats", EmptyDict),
                            "header_count", 0)
    IN  IF header_count < 3
            THEN << Plain(HIGH, "Too few headers") >>
        ELSE IF header_count < 5
            THEN << Plain(MEDIUM, "Add 2-3 more headers") >>
        ELSE IF header_count > 20
            THEN << Plain(LOW, "Many headers") >>
        ELSE << >>

\* Images rule (lines 238-245)
ImagesRule(fd) ==
    LET image_count == Get(Get(fd, "content_stats", EmptyDict),
                           "image_count", 0)
    IN  IF image_count < 1
            THEN << Plain(HIGH, "No images found") >>
        ELSE IF image_count < 3
            THEN << Plain(MEDIUM, "Add 2-3 more images") >>
        ELSE IF image_count > 20
            THEN << Plain(LOW, "Many images") >>
        ELSE << >>

\* A variant whose second rule repeats the first rule's message.
MobileRulesMutant(fd) ==
    LET mobile_data == Get(fd, "mobile", EmptyDict)
    IN  One(~Get(mobile_data, "has_viewport", FALSE),
            Plain(CRITICAL, "Missing viewport meta tag"))
        \o One(~Get(mobile_data, "handheld_friendly", FALSE),
               Plain(CRITICAL, "Missing viewport meta tag"))

\* Mobile optimisation rules (lines 247-252)
MobileRules(fd) ==
    LET mobile_data == Get(fd, "mobile", EmptyDict)
    IN  One(~Get(mobile_data, "has_viewport", FALSE),
            Plain(CRITICAL, "Missing viewport meta tag"))
        \o One(~Get(mobile_data, "handheld_friendly", FALSE),
               Plain(MEDIUM, "Improve mobile-friendliness"))

\* Schema markup rule (lines 254-260): the count is read from
\* readability_details, under the key schema_markup_count.
SchemaRule(fd) ==
    IF "seo" \in DOMAIN fd
    THEN LET schema_count == Get(Get(fd, "readability_details", EmptyDict),
                                 "schema_markup_count", 0)
         IN  IF schema_count = 0
                 THEN << Plain(MEDIUM, "No schema markup found") >>
             ELSE IF schema_count = 1
                 THEN << Plain(LOW, "Good start with schema markup") >>
             ELSE << >>
    ELSE << >>

\* Load time rule (lines 262-272); load_time in milliseconds.
LoadTimeRule(fd) ==
    IF "performance" \in DOMAIN fd /\ fd["performance"] # EmptyDict
    THEN LET lt == Get(fd["performance"], "load_time", 0)
         IN  IF lt > 5000
                 THEN << Plain(CRITICAL, "Page load time is very slow") >>
             ELSE IF lt > 3000
                 THEN << Plain(HIGH, "Page load time is slow") >>
             ELSE IF lt > 2000
                 THEN << Plain(MEDIUM, "Page load time could be faster") >>
             ELSE IF lt < 1000
                 THEN << Plain(LOW, "Excellent load time") >>
             ELSE << >>
    ELSE << >>

\* A variant whose keyword rule is silenced by a good seo_keywords score.
DataDrivenRecsMutant(fd, sc) ==
    (IF "seo_keywords" \in DOMAIN sc /\ sc["seo_keywords"] >= 7000
     THEN << >> ELSE KeywordRule(fd))
    \o InternalLinksRule(fd) \o ExternalLinksRule(fd)
    \o HttpsRule(fd) \o CitationsRule(fd) \o WordCountRule(fd)
    \o HeadersRule(fd) \o ImagesRule(fd) \o MobileRules(fd)
    \o SchemaRule(fd) \o LoadTimeRule(fd)

\* _get_data_driven_recommendations(free_data, scores)
DataDrivenRecs(fd, sc) ==
    KeywordRule(fd) \o InternalLinksRule(fd) \o ExternalLinksRule(fd)
    \o HttpsRule(fd) \o CitationsRule(fd) \o WordCountRule(fd)
    \o HeadersRule(fd) \o ImagesRule(fd) \o MobileRules(fd)
    \o SchemaRule(fd) \o LoadTimeRule(fd)

\* sorted(scores.items(), key=lambda x: x[1]): a stable ascending sort of the
\* keys in dictionary order; insertion of each key after the keys not above it.
RECURSIVE InsertByScore(_, _, _)
InsertByScore(c, sorted, sc) ==
    IF sorted = << >> THEN << c >>
    ELSE IF sc[Head(sorted)] <= sc[c]
         THEN << Head(sorted) >> \o InsertByScore(c, Tail(sorted), sc)
         ELSE << c >> \o sorted

RECURSIVE SortedFrom(_, _, _)
SortedFrom(order, acc, sc) ==
    IF order = << >> THEN acc
    ELSE SortedFrom(Tail(order), InsertByScore(Head(order), acc, sc), sc)

\* The keys of sc in the order the dictionary was built.
KeysInOrder(sc) == SelectSeq(CriteriaOrder, LAMBDA c : c \in DOMAIN sc)

SortedScores(sc) == SortedFrom(KeysInOrder(sc), << >>, sc)

RECURSIVE CriterionRecsAll(_, _)
CriterionRecsAll(order, sc) ==
    IF order = << >> THEN << >>
    ELSE CriterionRecs(Head(order), sc[Head(order)])
         \o CriterionRecsAll(Tail(order), sc)

\* priority_order.get(x.split(':')[0], 5)
PriorityOrder(m) ==
    CASE m.tier = CRITICAL  -> 0
      [] m.tier = HIGH      -> 1
      [] m.tier = MEDIUM    -> 2
      [] m.tier = LOW       -> 3
      [] m.tier = EXCELLENT -> 4
      [] OTHER              -> 5

\* list.sort(key=...): stable, so it is the concatenation, key by key, of the
\* messages having that key in their original order.
SortByPriorityMutant(recs) == recs

SortByPriority(recs) ==
    LET With(k) == SelectSeq(recs, LAMBDA m : PriorityOrder(m) = k)
    IN  With(0) \o With(1) \o With(2) \o With(3) \o With(4) \o With(5)

\* The list before the final sort (lines 22-33).
MergedRecs(sc, fd) ==
    CriterionRecsAll(SortedScores(sc), sc) \o DataDrivenRecs(fd, sc)

\* generate_recommendations(scores, free_data)
GenerateRecommendationsMutant(sc, fd) ==
    LET all == SortByPriority(MergedRecs(sc, fd))
    IN  SubSeq(all, 1, Min(10, Len(all)))

GenerateRecommendations(sc, fd) == SortByPriority(MergedRecs(sc, fd))

-----------------------------------------------------------------------------
(* Page data.                                                              *)
(*   text: [len, stripped, words, sentences, fx, fx_failed, stage_error,   *)
(*          pos, neg, questions, exclamations, cta, research,              *)
(*          first_person, first_person_cased, words4, unique4, primary,    *)
(*          cites, dates, kw_total, kw_top, kw_distinct]                   *)
(*   soup: None or [hs (tags h1..h6), img, img_alt, a, a_slash, a_domain,  *)
(*          a_other, refs, lists, emph, quotes, search, nav, breadcrumbs,  *)
(*          sitemap, featured, categories, tags, filters, has_body,        *)
(*          body_ads, content_ads, vid_auto, aud_auto, crowded, title_len, *)
(*          desc_len, jsonld, viewport, handheld, touch, tiny_fonts,       *)
(*          social_btn, shares, followers, testimonials]                   *)
(*   html: [len, ad_hits, fonts, hex_colors, platforms]                    *)
(*   url:  [https, netloc, segs, long_segs, hyphen, underscore]            *)
(***************************************************************************)

\* "if soup": a parsed page is true even when empty (bs4 Tag.__bool__).
Truthy(x) == ~IsNone(x)

-----------------------------------------------------------------------------
(* utils.py *)

\* analyze_font_sizes(soup)
AnalyzeFontSizes(s) == IF Truthy(s) THEN s.tiny_fonts ELSE 0

\* find_social_buttons(soup)
FindSocialButtons(s) == IF ~Truthy(s) THEN 0 ELSE Min(s.social_btn, 20)

\* find_social_proof(soup)
FindSocialProof(s) ==
    IF ~Truthy(s)
    THEN [share_counts |-> 0, follower_counts |-> 0, testimonials |-> 0]
    ELSE [share_counts |-> s.shares, follower_counts |-> s.followers,
          testimonials |-> s.testimonials]

\* find_featured_content(soup)
FindFeaturedContent(s) == IF ~Truthy(s) THEN 0 ELSE Min(s.featured, 5)

\* analyze_category_organization(soup), in points
AnalyzeCategoryOrganization(s) ==
    IF ~Truthy(s) THEN 0
    ELSE Min(s.categories * 2, 10) + Min(s.tags * 1, 5) + Min(s.filters * 3, 10)

-----------------------------------------------------------------------------
(* analysis.py; every *_score below is in hundredths of a point *)

\* A variant without the empty-text return.
AnalyzeCitationsMutant(t, s) ==
    LET citation_count == t.cites
        reference_sections == IF Truthy(s) THEN s.refs ELSE 0
    IN  [citation_count |-> citation_count,
         source_count   |-> reference_sections,
         citation_score |->
             Min(Pts(25), Pts(citation_count * 2 + reference_sections * 5))]

\* analyze_citations(text, soup)
AnalyzeCitations(t, s) ==
    IF t.len = 0
    THEN [citation_count |-> 0, source_count |-> 0, citation_score |-> 0]
    ELSE LET citation_count == t.cites
             reference_sections == IF Truthy(s) THEN s.refs ELSE 0
         IN  [citation_count |-> citation_count,
              source_count   |-> reference_sections,
              citation_score |->
                  Min(Pts(25), Pts(citation_count * 2 + reference_sections * 5))]

\* A variant without the final cap of 40.
AnalyzeSkimmingOptimizationMutant(s) ==
    IF ~Truthy(s) THEN 0
    ELSE LET headers == s.hs[1] + s.hs[2] + s.hs[3] + s.hs[4]
         IN  Min(Pts(headers * 2), Pts(20))
             + Min(Pts(s.lists * 3), Pts(15))
             + Min(s.emph * 50, Pts(10))
             + Min(Pts(s.quotes * 2), Pts(10))
             + Min(Pts(s.img_alt), Pts(5))

\* analyze_skimming_optimization(soup)
AnalyzeSkimmingOptimization(s) ==
    IF ~Truthy(s) THEN 0
    ELSE LET headers == s.hs[1] + s.hs[2] + s.hs[3] + s.hs[4]
             skimming_elements ==
                 Min(Pts(headers * 2), Pts(20))
                 + Min(Pts(s.lists * 3), Pts(15))
                 + Min(s.emph * 50, Pts(10))
                 + Min(Pts(s.quotes * 2), Pts(10))
                 + Min(Pts(s.img_alt), Pts(5))
         IN  Min(Pts(40), skimming_elements)

\* analyze_ad_placement(soup): body_ads is the number of the indicators
\* 'ad', 'banner', 'popup' found in the first 1000 characters of the body,
\* content_ads the number of content areas holding 'ad' or 'banner'.
AnalyzeAdPlacement(s) ==
    IF ~Truthy(s) THEN 0
    ELSE Min(Pts((IF s.has_body THEN s.body_ads * 10 ELSE 0)
                 + s.content_ads * 5), Pts(30))

\* detect_autoplay_media(soup)
DetectAutoplayMedia(s) ==
    IF ~Truthy(s) THEN 0
    ELSE Min(Pts(s.vid_auto * 15 + s.aud_auto * 15), Pts(30))

\* Number of distinct heading levels present.
HeadingLevels(s) == Cardinality({ i \in 1..6 : s.hs[i] > 0 })

HeaderCount(s) == SumSeq(s.hs)

\* analyze_design_quality(soup, html)
AnalyzeDesignQuality(s, h) ==
    IF ~Truthy(s)
    THEN [whitespace_score |-> 0, typography_score |-> 0,
          color_contrast_score |-> 0, visual_hierarchy_score |-> 0]
    ELSE [whitespace_score       |-> Max(0, Pts(10 - s.crowded)),
          typography_score       |-> Min(Pts(10), Pts(h.fonts * 2)),
          color_contrast_score   |-> Max(0, Pts(10) - h.hex_colors * 10),
          visual_hierarchy_score |-> Min(Pts(10), Pts(HeadingLevels(s) * 2))]

RoundRatioMutant(n, d) == n \div d

\* n / d rounded to the nearest integer, a tie to the even one (d > 0).
RoundRatio(n, d) ==
    LET q == n \div d
        r == n % d
    IN  IF 2 * r < d THEN q
        ELSE IF 2 * r > d THEN q + 1
        ELSE IF q % 2 = 0 THEN q ELSE q + 1

\* analyze_keywords(text): kw_total is len(words), kw_top the summed
\* frequencies of the ten most frequent non-stop words, kw_distinct their
\* number.  The local keyword_density is the ratio kw_top / kw_total; the
\* stored one is round(ratio * 100, 2), here in hundredths of a percent.
AnalyzeKeywords(t) ==
    IF t.len = 0
    THEN [primary_keywords |-> 0, keyword_density |-> 0, keyword_score |-> 0]
    ELSE IF t.kw_total > 0
    THEN [primary_keywords |-> t.kw_distinct,
          keyword_density  |-> RoundRatio(t.kw_top * 10000, t.kw_total),
          keyword_score    |->
              IF t.kw_total <= t.kw_top /\ t.kw_top <= 2 * t.kw_total
                  THEN Pts(15)
              ELSE IF t.kw_total <= 2 * t.kw_top /\ t.kw_top <= 3 * t.kw_total
                  THEN Pts(10)
              ELSE Pts(5)]
    ELSE [primary_keywords |-> t.kw_distinct, keyword_density |-> 0,
          keyword_score |-> 0]

AnalyzeInternalLinkingMutant(s, u) ==
    IF ~Truthy(s)
    THEN [internal_links |-> 0, external_links |-> 0, linking_score |-> 0]
    ELSE LET internal == s.a_slash + s.a_domain
                         + (IF u.netloc THEN 0 ELSE s.a_other)
             external == IF u.netloc THEN s.a_other ELSE 0
             total_links == internal + external
         IN  [internal_links |-> internal,
              external_links |-> external,
              linking_score  |->
                  IF total_links > 0
                  THEN IF 10 * internal > 6 * total_links THEN Pts(15)
                       ELSE IF 10 * internal >= 4 * total_links THEN Pts(10)
                       ELSE Pts(5)
                  ELSE 0]

\* analyze_internal_linking(soup, domain): an anchor with an href is internal
\* when the href starts with '/' (a_slash) or contains the domain string
\* (a_domain; every href contains the empty string), else external.
AnalyzeInternalLinking(s, u) ==
    IF ~Truthy(s)
    THEN [internal_links |-> 0, external_links |-> 0, linking_score |-> 0]
    ELSE LET internal == s.a_slash + s.a_domain
                         + (IF u.netloc THEN 0 ELSE s.a_other)
             external == IF u.netloc THEN s.a_other ELSE 0
             total_links == internal + external
         IN  [internal_links |-> internal,
              external_links |-> external,
              linking_score  |->
                  IF total_links > 0
                  THEN IF 10 * internal >= 6 * total_links THEN Pts(15)
                       ELSE IF 10 * internal >= 4 * total_links THEN Pts(10)
                       ELSE Pts(5)
                  ELSE 0]

\* analyze_content_freshness(text)
AnalyzeContentFreshness(t) ==
    IF t.len = 0 \/ t.dates = 0
    THEN [last_updated |-> None, update_frequency |-> 0, freshness_score |-> 0]
    ELSE [last_updated |-> None, update_frequency |-> t.dates,
          freshness_score |-> Min(Pts(10), Pts(t.dates * 2))]

\* analyze_url_structure(url)
AnalyzeUrlStructure(u) ==
    Pts((IF u.segs <= 3 THEN 5 ELSE 0)
        + (IF u.hyphen /\ ~u.underscore THEN 5 ELSE 0)
        + (IF u.long_segs >= 1 THEN 5 ELSE 0))

-----------------------------------------------------------------------------
(* scoring.py; scores in hundredths of a point *)

Formulas ==
    << "flesch_reading_ease", "flesch_kincaid_grade", "gunning_fog",
       "smog_index", "automated_readability", "coleman_liau" >>

\* A variant that also counts a formula whose value is 0.
FormulaTermMutant(name, value) ==
    IF value >= 0
    THEN IF name = "flesch_reading_ease"
         THEN << Max(0, Min(Pts(100), value)), 1 >>
         ELSE << Max(0, Pts(100) - value * 5), 1 >>
    ELSE << 0, 0 >>

\* One formula's share of the average: << normalized score, 1 >> when its
\* value is positive, << 0, 0 >> when it is not counted.
FormulaTerm(name, value) ==
    IF value > 0
    THEN IF name = "flesch_reading_ease"
         THEN << Max(0, Min(Pts(100), value)), 1 >>
         ELSE << Max(0, Pts(100) - value * 5), 1 >>
    ELSE << 0, 0 >>

NormalizeReadabilityScoresMutant(fs) ==
    SumSeq([i \in 1..Len(Formulas) |->
               IF Formulas[i] \in DOMAIN fs
               THEN FormulaTerm(Formulas[i], fs[Formulas[i]])[1] ELSE 0])
    \div Len(Formulas)

\* normalize_readability_scores(scores)
NormalizeReadabilityScores(fs) ==
    LET terms == [i \in 1..Len(Formulas) |->
                    IF Formulas[i] \in DOMAIN fs
                    THEN FormulaTerm(Formulas[i], fs[Formulas[i]])
                    ELSE << 0, 0 >>]
        total_score  == SumSeq([i \in 1..Len(Formulas) |-> terms[i][1]])
        weight_count == SumSeq([i \in 1..Len(Formulas) |-> terms[i][2]])
    IN  IF weight_count > 0 THEN total_score \div weight_count ELSE Pts(50)

\* The scores dictionary built at lines 84-114: a formula that raises
\* contributes 0.
FormulaScores(t) ==
    [f \in DOMAIN t.fx |-> IF f \in t.fx_failed THEN 0 ELSE t.fx[f]]

\* The except branch at lines 119-136.
ReadabilityFallback(t) ==
    IF t.sentences > 0 /\ t.words > 0
    THEN IF t.words <= 15 * t.sentences THEN Pts(80)
         ELSE IF t.words <= 25 * t.sentences THEN Pts(60)
         ELSE Pts(40)
    ELSE Pts(50)

\* score_readability(text); stage_error: the try block raises outside the
\* per-formula handlers.
ScoreReadability(t) ==
    IF t.len = 0 \/ t.stripped < 100 THEN Pts(50)
    ELSE IF t.stage_error THEN ReadabilityFallback(t)
    ELSE Min(Pts(100), Max(0, NormalizeReadabilityScores(FormulaScores(t))))

\* A variant whose media component is capped at 25.
ScoreInformativenessMutant(t, s, citation_analysis) ==
    IF t.len = 0 \/ ~Truthy(s) THEN 0
    ELSE LET depth_score     == Min(Pts(30), t.words)
             structure_score == Min(Pts(25), Pts(HeaderCount(s) * 2))
             media_score     == Min(Pts(25), (s.img + s.a) * 150)
             citation_score  == Min(Pts(25),
                                    Get(citation_analysis, "citation_score", 0))
         IN  Min(Pts(100),
                 depth_score + structure_score + media_score + citation_score)

\* score_informativeness(text, soup, citation_analysis)
ScoreInformativeness(t, s, citation_analysis) ==
    IF t.len = 0 \/ ~Truthy(s) THEN 0
    ELSE LET depth_score     == Min(Pts(30), t.words)
             structure_score == Min(Pts(25), Pts(HeaderCount(s) * 2))
             media_score     == Min(Pts(20), (s.img + s.a) * 150)
             citation_score  == Min(Pts(25),
                                    Get(citation_analysis, "citation_score", 0))
         IN  Min(Pts(100),
                 depth_score + structure_score + media_score + citation_score)

\* score_engagement(text, soup)
ScoreEngagementMutant(t, s) ==
    LET skimming_score    == AnalyzeSkimmingOptimization(s)
        sentiment_score   == Max(0, Min(Pts(100),
                                        Pts(50 + (t.pos - t.neg) * 3)))
        interaction_score == Min(Pts(30), Pts(t.questions * 2)
                                          + t.exclamations * 150
                                          + Pts(t.cta * 2))
    IN  Min(Pts(100), sentiment_score + interaction_score + skimming_score)

ScoreEngagement(t, s) ==
    IF t.len = 0 THEN 0
    ELSE LET skimming_score    == AnalyzeSkimmingOptimization(s)
             sentiment_score   == Max(0, Min(Pts(100),
                                             Pts(50 + (t.pos - t.neg) * 3)))
             interaction_score == Min(Pts(30), Pts(t.questions * 2)
                                               + t.exclamations * 150
                                               + Pts(t.cta * 2))
         IN  Min(Pts(100), sentiment_score + interaction_score + skimming_score)

\* score_uniqueness(text)
ScoreUniqueness(t) ==
    IF t.len = 0 THEN 0
    ELSE LET unique_ratio30 == IF t.words4 > 0
                               THEN (t.unique4 * 3000) \div t.words4 ELSE 0
         IN  Min(Pts(100),
                 Pts(40)
                 + Min(Pts(20), Pts(t.research * 3))
                 + Min(Pts(15), t.first_person * 80)
                 + Min(Pts(15), unique_ratio30)
                 + Min(Pts(10), Pts(t.primary * 2)))

\* score_discoverability(soup)
ScoreDiscoverability(s) ==
    IF ~Truthy(s) THEN 0
    ELSE Min(Pts(100),
             Pts((IF s.search THEN 15 ELSE 5)
                 + Min(20, s.nav * 5)
                 + (IF s.breadcrumbs THEN 15 ELSE 0)
                 + (IF s.sitemap THEN 10 ELSE 0)
                 + Min(15, FindFeaturedContent(s) * 3)
                 + Min(25, AnalyzeCategoryOrganization(s))))

\* score_ad_experience(html, soup): ad_hits is the summed count of the twelve
\* indicators in html.lower().
AdQualityMutant(h, s) ==
    Pts(100) - Pts(h.ad_hits * 5) - AnalyzeAdPlacement(s)
    - DetectAutoplayMedia(s)

AdQuality(h, s) ==
    Max(0, Pts(100) - Pts(h.ad_hits * 5) - AnalyzeAdPlacement(s)
           - DetectAutoplayMedia(s))

ScoreAdExperienceMutant(h, s) == Min(Pts(100), AdQuality(h, s))

ScoreAdExperience(h, s) ==
    IF h.len = 0 THEN 0 ELSE Min(Pts(100), AdQuality(h, s))

Platforms ==
    << "facebook", "twitter", "instagram", "linkedin", "youtube", "pinterest",
       "tiktok" >>

\* score_social_integration(social_data)
ScoreSocialIntegration(social_data) ==
    IF social_data = EmptyDict THEN 0
    ELSE LET platform_count ==
                 Cardinality({ i \in 1..Len(Platforms) :
                                 Get(social_data, Platforms[i], FALSE) })
             sharing_buttons == Get(social_data, "sharing_buttons", 0)
             social_proof    == Get(social_data, "social_proof", EmptyDict)
             share_counts    == Get(social_proof, "share_counts", 0)
             follower_counts == Get(social_proof, "follower_counts", 0)
             testimonials    == Get(social_proof, "testimonials", 0)
         IN  Min(Pts(100),
                 Pts(platform_count * 10 + sharing_buttons * 3
                     + Min(share_counts * 2, 10)
                     + Min(follower_counts * 2, 10)
                     + Min(testimonials * 3, 15)))

\* A variant that also adds the visual hierarchy score.
ScoreLayoutQualityMutant(s, mobile_data, security_data, design_metrics) ==
    Min(Pts(100),
        Pts(40)
        + (IF Get(mobile_data, "has_viewport", FALSE) THEN Pts(10) ELSE 0)
        + (IF Get(mobile_data, "handheld_friendly", FALSE) THEN Pts(5) ELSE 0)
        + (IF Get(mobile_data, "touch_optimized", FALSE) THEN Pts(5) ELSE 0)
        + (IF Get(security_data, "https", FALSE) THEN Pts(10) ELSE 0)
        + (IF Truthy(s) /\ s.hs[1] = 1 THEN Pts(5) ELSE 0)
        + Get(design_metrics, "whitespace_score", 0)
        + Get(design_metrics, "typography_score", 0)
        + Get(design_metrics, "color_contrast_score", 0)
        + Get(design_metrics, "visual_hierarchy_score", 0))

\* score_layout_quality(soup, mobile_data, security_data, design_metrics)
ScoreLayoutQuality(s, mobile_data, security_data, design_metrics) ==
    Min(Pts(100),
        Pts(40)
        + (IF Get(mobile_data, "has_viewport", FALSE) THEN Pts(10) ELSE 0)
        + (IF Get(mobile_data, "handheld_friendly", FALSE) THEN Pts(5) ELSE 0)
        + (IF Get(mobile_data, "touch_optimized", FALSE) THEN Pts(5) ELSE 0)
        + (IF Get(security_data, "https", FALSE) THEN Pts(10) ELSE 0)
        + (IF Truthy(s) /\ s.hs[1] = 1 THEN Pts(5) ELSE 0)
        + Get(design_metrics, "whitespace_score", 0)
        + Get(design_metrics, "typography_score", 0)
        + Get(design_metrics, "color_contrast_score", 0))

ScoreSeoKeywordsMutant(s, seo_data, keyword_analysis, internal_linking, content_freshness, u) ==
    IF ~Truthy(s) THEN 0
    ELSE Min(Pts(100),
             (IF 30 <= s.title_len /\ s.title_len <= 60 THEN Pts(10) ELSE 0)
             + (IF 120 <= s.desc_len /\ s.desc_len <= 160 THEN Pts(10) ELSE 0)
             + (IF s.hs[1] = 1 THEN Pts(5) ELSE 0)
             + (IF Get(seo_data, "indexed", FALSE) THEN Pts(10) ELSE 0)
             + Get(keyword_analysis, "keyword_score", 0)
             + Get(internal_linking, "linking_score", 0)
             + Get(content_freshness, "freshness_score", 0)
             + Pts(Min(s.jsonld * 3, 10))
             + AnalyzeUrlStructure(u))

\* score_seo_keywords(soup, seo_data, keyword_analysis, internal_linking,
\*                    content_freshness, url)
ScoreSeoKeywords(s, seo_data, keyword_analysis, internal_linking, content_freshness, u) ==
    IF ~Truthy(s) THEN 0
    ELSE Min(Pts(100),
             (IF 30 <= s.title_len /\ s.title_len <= 60 THEN Pts(10) ELSE 0)
             + (IF 120 <= s.desc_len /\ s.desc_len <= 160 THEN Pts(10) ELSE 0)
             + (IF s.hs[1] = 1 THEN Pts(5) ELSE 0)
             + (IF Get(seo_data, "indexed", FALSE) THEN Pts(10) ELSE 0)
             + Get(keyword_analysis, "keyword_score", 0)
             + Get(internal_linking, "linking_score", 0)
             + Get(content_freshness, "freshness_score", 0)
             + Pts(Min(s.jsonld * 3, 10))
             + AnalyzeUrlStructure(u)
             + Pts(15))

-----------------------------------------------------------------------------
(* data_collection.py *)

Collectors == {"performance", "mobile", "seo", "security", "social"}

\* self.load_time is None
NoTime == 0 - 1

\* get_free_performance_data(url, performance_metrics, load_time);
\* lighthouse: what run_lighthouse_cli returns (None when the tool is absent).
GetFreePerformanceData(pm, lt, lighthouse) ==
    LET base == IF ~IsNone(pm) /\ pm # EmptyDict
                THEN [k \in DOMAIN pm \cup {"source"} |->
                        IF k = "source" THEN "playwright_cdp" ELSE pm[k]]
                ELSE IF lt # NoTime /\ lt # 0
                THEN [load_time |-> lt, source |-> "basic_timing"]
                ELSE EmptyDict
    IN  IF ~IsNone(lighthouse)
        THEN [k \in DOMAIN base \cup {"lighthouse", "source"} |->
                IF k = "lighthouse" THEN lighthouse
                ELSE IF k = "source" THEN "lighthouse_cli" ELSE base[k]]
        ELSE base

\* get_mobile_friendly_check(soup)
GetMobileFriendlyCheck(s) ==
    IF Truthy(s)
    THEN [mobile_friendly   |-> TRUE,
          issues            |-> IF AnalyzeFontSizes(s) > 5
                                THEN << "Potential small font sizes" >>
                                ELSE << >>,
          has_viewport      |-> s.viewport,
          handheld_friendly |-> s.handheld,
          touch_optimized   |-> s.touch]
    ELSE [mobile_friendly |-> TRUE, issues |-> << >>]

\* get_seo_data_free(domain); answer: "indexed", "not_indexed", or "error"
\* when the search request raises inside the function's own handler.
GetSeoDataFree(answer) ==
    IF answer = "indexed" THEN [indexed |-> TRUE]
    ELSE IF answer = "not_indexed" THEN [indexed |-> FALSE]
    ELSE EmptyDict

\* get_ssl_security_info(url)
GetSslSecurityInfo(u) ==
    IF u.https THEN [https |-> TRUE, secure |-> TRUE]
    ELSE [https |-> FALSE, secure |-> FALSE]

\* get_social_metrics_free(html, soup)
GetSocialMetricsFree(h, s) ==
    [k \in { Platforms[i] : i \in 1..Len(Platforms) }
           \cup {"sharing_buttons", "social_proof"} |->
        IF k = "sharing_buttons" THEN FindSocialButtons(s)
        ELSE IF k = "social_proof" THEN FindSocialProof(s)
        ELSE k \in h.platforms]

-----------------------------------------------------------------------------
(* core.py: WebBoostAnalyzer *)

Unset == 0 - 1

\* The extractor calls and detail dictionaries of lines 191-282.
ExtractSignals(t, s, h, u) ==
    [ design            |-> AnalyzeDesignQuality(s, h),
      content_freshness |-> AnalyzeContentFreshness(t),
      keyword_analysis  |-> AnalyzeKeywords(t),
      internal_linking  |-> AnalyzeInternalLinking(s, u),
      citation_analysis |-> AnalyzeCitations(t, s),
      content_stats     |->
          [ word_count   |-> IF t.len > 0 THEN t.words ELSE 0,
            header_count |-> IF Truthy(s) THEN HeaderCount(s) ELSE 0,
            image_count  |-> IF Truthy(s) THEN s.img ELSE 0,
            link_count   |-> IF Truthy(s) THEN s.a ELSE 0 ],
      readability_details |->
          [f \in DOMAIN t.fx |->
              IF t.len > 0 /\ f \notin t.fx_failed THEN t.fx[f] ELSE 0],
      engagement_details |->
          [ positive_words |-> IF t.len > 0 THEN t.pos ELSE 0,
            negative_words |-> IF t.len > 0 THEN t.neg ELSE 0,
            questions      |-> IF t.len > 0 THEN t.questions ELSE 0,
            exclamations   |-> IF t.len > 0 THEN t.exclamations ELSE 0,
            cta_words      |-> IF t.len > 0 THEN t.cta ELSE 0 ],
      uniqueness_details |->
          [ unique_ratio   |-> IF t.len > 0 /\ t.words4 > 0
                               THEN (t.unique4 * 100) \div t.words4 ELSE 0,
            research_words |-> IF t.len > 0 THEN t.research ELSE 0,
            first_person_count |->
                IF t.len > 0 THEN t.first_person_cased ELSE 0 ],
      ad_details |-> [ ad_count |-> IF h.len > 0 THEN h.ad_hits ELSE 0 ] ]

\* The scores dictionary of lines 285-295.
ComputeScores(t, s, h, u, a, g) ==
    [ readability        |-> ScoreReadability(t),
      informativeness    |-> ScoreInformativeness(t, s, g.citation_analysis),
      engagement         |-> ScoreEngagement(t, s),
      uniqueness         |-> ScoreUniqueness(t),
      discoverability    |-> ScoreDiscoverability(s),
      ad_experience      |-> ScoreAdExperience(h, s),
      social_integration |-> ScoreSocialIntegration(a.social),
      layout_quality     |-> ScoreLayoutQuality(s, a.mobile, a.security, g.design),
      seo_keywords       |-> ScoreSeoKeywords(s, a.seo, g.keyword_analysis,
                                 g.internal_linking, g.content_freshness, u) ]

\* d[k] = v on a dictionary
Put(d, k, v) == [x \in DOMAIN d \cup {k} |-> IF x = k THEN v ELSE d[x]]

\* Lines 297-313: each detail dictionary receives its criterion's score.
AttachSignals(g, sc) ==
    [ g EXCEPT
        !.readability_details = Put(@, "score", sc.readability),
        !.engagement_details  = Put(@, "score", sc.engagement),
        !.uniqueness_details  = Put(@, "score", sc.uniqueness),
        !.ad_details          = Put(@, "score", sc.ad_experience),
        !.design              = Put(@, "layout_score", sc.layout_quality),
        !.content_stats       = Put(@, "informativeness_score", sc.informativeness),
        !.keyword_analysis    = Put(@, "seo_score", sc.seo_keywords) ]

AttachAux(a, sc) ==
    [ a EXCEPT !.social = Put(@, "social_score", sc.social_integration) ]

\* results['free_data_sources'] (lines 319-335)
FreeDataSources(a, g) ==
    [ performance         |-> a.performance,
      mobile              |-> a.mobile,
      seo                 |-> a.seo,
      security            |-> a.security,
      social              |-> a.social,
      design              |-> g.design,
      content_freshness   |-> g.content_freshness,
      keyword_analysis    |-> g.keyword_analysis,
      internal_linking    |-> g.internal_linking,
      citation_analysis   |-> g.citation_analysis,
      content_stats       |-> g.content_stats,
      readability_details |-> g.readability_details,
      engagement_details  |-> g.engagement_details,
      uniqueness_details  |-> g.uniqueness_details,
      ad_details          |-> g.ad_details ]

\* sum(results['scores'][key] * SCORING_WEIGHTS[key] for key in scores),
\* in millionths of a point.
WeightedSum(sc, w) ==
    SumOver([c \in DOMAIN sc |-> sc[c] * w[c]], DOMAIN sc)

\* round(overall, 2), in hundredths of a point
Round2Mutant(overall) == (overall \div 1000000) * 100

Round2(overall) == RoundHalfEven(overall, 10000)

OverallScore(sc, w) == Round2(WeightedSum(sc, w))

-----------------------------------------------------------------------------
(* Inputs: the pages, URLs and collaborator answers the model draws from *)

FormulaNames == { Formulas[i] : i \in 1..Len(Formulas) }

EmptyText ==
    [ len |-> 0, stripped |-> 0, words |-> 0, sentences |-> 1,
      fx |-> [f \in FormulaNames |-> 0], fx_failed |-> {},
      stage_error |-> FALSE,
      pos |-> 0, neg |-> 0, questions |-> 0, exclamations |-> 0, cta |-> 0,
      research |-> 0, first_person |-> 0, first_person_cased |-> 0,
      words4 |-> 0, unique4 |-> 0, primary |-> 0, cites |-> 0, dates |-> 0,
      kw_total |-> 0, kw_top |-> 0, kw_distinct |-> 0 ]

\* A two-line notice, under the 100-character minimum.
ShortText ==
    [ EmptyText EXCEPT
        !.len = 62, !.stripped = 60, !.words = 11, !.sentences = 3,
        !.fx = [f \in FormulaNames |->
                   IF f = "flesch_reading_ease" THEN 8210 ELSE 430],
        !.pos = 1, !.exclamations = 1, !.words4 = 6, !.unique4 = 6,
        !.kw_total = 4, !.kw_top = 4, !.kw_distinct = 4 ]

\* A researched article of 1500 words.
ArticleText ==
    [ EmptyText EXCEPT
        !.len = 9000, !.stripped = 9000, !.words = 1500, !.sentences = 91,
        !.fx = [ flesch_reading_ease |-> 6550, flesch_kincaid_grade |-> 850,
                 gunning_fog |-> 1020, smog_index |-> 990,
                 automated_readability |-> 900, coleman_liau |-> 1055 ],
        !.pos = 6, !.neg = 1, !.questions = 3, !.exclamations = 2, !.cta = 4,
        !.research = 5, !.first_person = 6, !.first_person_cased = 9,
        !.words4 = 900, !.unique4 = 450, !.primary = 2, !.cites = 6,
        !.dates = 2, !.kw_total = 700, !.kw_top = 14, !.kw_distinct = 10 ]

\* One long angry sentence: negative ease score, very high grade levels,
\* the same five-letter word over and over.
RantText ==
    [ EmptyText EXCEPT
        !.len = 450, !.stripped = 450, !.words = 80, !.sentences = 2,
        !.fx = [ flesch_reading_ease |-> 0 - 1240, flesch_kincaid_grade |-> 2500,
                 gunning_fog |-> 3100, smog_index |-> 0,
                 automated_readability |-> 2800, coleman_liau |-> 2050 ],
        !.neg = 20, !.exclamations = 1, !.words4 = 60, !.unique4 = 3,
        !.kw_total = 40, !.kw_top = 40, !.kw_distinct = 2 ]

\* A long, upbeat, heavily referenced guide: every text component at its cap.
GuideText ==
    [ EmptyText EXCEPT
        !.len = 26000, !.stripped = 26000, !.words = 4200, !.sentences = 400,
        !.fx = [ flesch_reading_ease |-> 12090, flesch_kincaid_grade |-> 10,
                 gunning_fog |-> 20, smog_index |-> 10,
                 automated_readability |-> 10, coleman_liau |-> 20 ],
        !.pos = 30, !.neg = 2, !.questions = 12, !.exclamations = 5,
        !.cta = 9, !.research = 11, !.first_person = 25,
        !.first_person_cased = 31, !.words4 = 2000, !.unique4 = 1400,
        !.primary = 7, !.cites = 24, !.dates = 6,
        !.kw_total = 2400, !.kw_top = 36, !.kw_distinct = 10 ]

BaseTexts == { EmptyText, ShortText, ArticleText, RantText, GuideText }

\* The readability library's behaviour on a text: which formulas raise, and
\* whether the stage raises outside the per-formula handlers.
FormulaOutcomes ==
    { [failed |-> {}, stage |-> FALSE],
      [failed |-> {"flesch_reading_ease", "smog_index"}, stage |-> FALSE],
      [failed |-> FormulaNames, stage |-> FALSE],
      [failed |-> {}, stage |-> TRUE] }

WithOutcome(t, o) == [ t EXCEPT !.fx_failed = o.failed, !.stage_error = o.stage ]

Texts ==
    { EmptyText, ShortText }
    \cup { WithOutcome(t, o) : t \in {ArticleText, RantText, GuideText},
                               o \in FormulaOutcomes }

\* The parse of an empty document.
EmptySoup ==
    [ hs |-> << 0, 0, 0, 0, 0, 0 >>, img |-> 0, img_alt |-> 0, a |-> 0,
      a_slash |-> 0, a_domain |-> 0, a_other |-> 0, refs |-> 0, lists |-> 0,
      emph |-> 0, quotes |-> 0, search |-> FALSE, nav |-> 0,
      breadcrumbs |-> FALSE, sitemap |-> FALSE, featured |-> 0,
      categories |-> 0, tags |-> 0, filters |-> 0, has_body |-> FALSE,
      body_ads |-> 0, content_ads |-> 0, vid_auto |-> 0, aud_auto |-> 0,
      crowded |-> 0, title_len |-> 0, desc_len |-> 0, jsonld |-> 0,
      viewport |-> FALSE, handheld |-> FALSE, touch |-> FALSE,
      tiny_fonts |-> 0, social_btn |-> 0, shares |-> 0, followers |-> 0,
      testimonials |-> 0 ]

\* A plain blog post.
BlogSoup ==
    [ EmptySoup EXCEPT
        !.hs = << 1, 4, 2, 0, 0, 0 >>, !.img = 2, !.img_alt = 1, !.a = 12,
        !.a_slash = 4, !.a_domain = 2, !.a_other = 4, !.lists = 2,
        !.emph = 5, !.nav = 1, !.categories = 2, !.tags = 3,
        !.has_body = TRUE, !.body_ads = 1, !.crowded = 2, !.title_len = 42,
        !.desc_len = 90, !.jsonld = 1, !.viewport = TRUE, !.social_btn = 3,
        !.testimonials = 1 ]

\* A well organised portal: every structural component at or above its cap.
PortalSoup ==
    [ EmptySoup EXCEPT
        !.hs = << 1, 9, 8, 3, 2, 1 >>, !.img = 25, !.img_alt = 25, !.a = 70,
        !.a_slash = 40, !.a_domain = 15, !.a_other = 12, !.refs = 3,
        !.lists = 8, !.emph = 30, !.quotes = 6, !.search = TRUE, !.nav = 5,
        !.breadcrumbs = TRUE, !.sitemap = TRUE, !.featured = 9,
        !.categories = 7, !.tags = 9, !.filters = 4, !.has_body = TRUE,
        !.title_len = 60, !.desc_len = 120, !.jsonld = 4, !.viewport = TRUE,
        !.handheld = TRUE, !.touch = TRUE, !.social_btn = 26, !.shares = 7,
        !.followers = 6, !.testimonials = 8 ]

\* A page crowded with advertising and autoplaying media.
AdSoup ==
    [ EmptySoup EXCEPT
        !.hs = << 2, 1, 0, 0, 0, 0 >>, !.img = 31, !.a = 3, !.a_other = 3,
        !.has_body = TRUE, !.body_ads = 3, !.content_ads = 4, !.vid_auto = 2,
        !.aud_auto = 1, !.crowded = 14, !.title_len = 95, !.desc_len = 200,
        !.tiny_fonts = 8, !.social_btn = 1 ]

Soups == { EmptySoup, BlogSoup, PortalSoup, AdSoup }

PlatformNames == { Platforms[i] : i \in 1..Len(Platforms) }

Htmls ==
    { [ len |-> 0, ad_hits |-> 0, fonts |-> 0, hex_colors |-> 0,
        platforms |-> {} ],
      [ len |-> 5200, ad_hits |-> 5, fonts |-> 2, hex_colors |-> 12,
        platforms |-> {"twitter", "facebook"} ],
      [ len |-> 90000, ad_hits |-> 27, fonts |-> 7, hex_colors |-> 140,
        platforms |-> PlatformNames ] }

\* https://example.com/blog/content-quality-guide
GuideUrl ==
    [ https |-> TRUE, netloc |-> TRUE, segs |-> 2, long_segs |-> 2,
      hyphen |-> TRUE, underscore |-> FALSE ]

\* http://example.com/a/b/c/d/my_page
DeepUrl ==
    [ https |-> FALSE, netloc |-> TRUE, segs |-> 5, long_segs |-> 1,
      hyphen |-> FALSE, underscore |-> TRUE ]

\* https://example.com
RootUrl ==
    [ https |-> TRUE, netloc |-> TRUE, segs |-> 0, long_segs |-> 0,
      hyphen |-> FALSE, underscore |-> FALSE ]

\* example.com/blog-post: no scheme, so urlparse finds no netloc
BareUrl ==
    [ https |-> FALSE, netloc |-> FALSE, segs |-> 2, long_segs |-> 2,
      hyphen |-> TRUE, underscore |-> FALSE ]

Urls == { GuideUrl, DeepUrl, RootUrl, BareUrl }

SearchAnswers == { "indexed", "not_indexed", "error" }

LighthouseReport == [ performance_score |-> 9100, speed_index |-> 1800 ]

\* What get_performance_metrics(page) returns.
BrowserMetrics == [ load_time |-> 2350, dom_interactive |-> 900, resource_count |-> 41 ]

Page(t, s, h) == [ text |-> t, soup |-> s, html |-> h ]

EmptyHtml == [ len |-> 0, ad_hits |-> 0, fonts |-> 0, hex_colors |-> 0, platforms |-> {} ]

BlogPage == Page(ArticleText, BlogSoup, [ len |-> 5200, ad_hits |-> 5, fonts |-> 2, hex_colors |-> 12, platforms |-> {"twitter", "facebook"} ])

PortalPage == Page(GuideText, PortalSoup, [ len |-> 90000, ad_hits |-> 0, fonts |-> 7, hex_colors |-> 3, platforms |-> PlatformNames ])

\* An empty response body.
BlankPage == Page(EmptyText, EmptySoup, EmptyHtml)

\* The world of one analyzer: what the server returns to the plain fetch
\* (static) and to the headless browser (dynamic), whether the browser loader
\* is available and enabled, and what the collaborators answer.
World(st, dy, pw, ans, lh, pm) ==
    [ static |-> st, dynamic |-> dy, playwright |-> pw, search |-> ans,
      lighthouse |-> lh, metrics |-> pm, pw_time |-> 3400, http_time |-> 800 ]

Worlds ==
    { World(BlogPage, PortalPage, FALSE, "indexed", None, None),
      World(BlankPage, BlogPage, FALSE, "not_indexed", None, None) }
    \cup { World(BlogPage, PortalPage, TRUE, "indexed", None, pm) :
             pm \in { None, BrowserMetrics } }
    \cup { World(BlankPage, BlogPage, TRUE, "not_indexed", None, pm) :
             pm \in { None, BrowserMetrics } }

MaxRuns == 2

-----------------------------------------------------------------------------
(* The process: import of the package, then analyze() calls on one analyzer *)

NoHistory ==
    [ loader_ok |-> FALSE,   \* some loader has run to completion
      source    |-> "none",  \* the loader that last assigned self.soup
      attempts  |-> << >>,   \* loader outcomes of the current analyze() call
      prev      |-> None ]   \* the bundle of the previous completed call

\* WebBoostAnalyzer.__init__ and the locals of analyze() before they are bound
FreshAnalyzer ==
    /\ soup = None
    /\ text = EmptyText
    /\ html = EmptyHtml
    /\ performance_metrics = None
    /\ load_time = NoTime

NoLocals ==
    /\ failed = {}
    /\ aux = EmptyDict
    /\ sig = EmptyDict
    /\ scores = EmptyDict
    /\ free_data = EmptyDict
    /\ overall_score = Unset
    /\ recommendations = << >>

Init ==
    /\ weights = SCORING_WEIGHTS
    /\ pc = "import"
    /\ url \in { GuideUrl, DeepUrl }
    /\ web \in Worlds
    /\ FreshAnalyzer
    /\ NoLocals
    /\ run = 0
    /\ hist = NoHistory

analyzerVars == << soup, text, html, performance_metrics, load_time >>

localVars == << failed, aux, sig, scores, free_data, overall_score, recommendations >>

\* constants.py line 19, evaluated when the package is imported.
Import ==
    /\ pc = "import"
    /\ pc' = IF WeightsValid(weights) THEN "idle" ELSE "refused"
    /\ UNCHANGED << weights, url, web, analyzerVars, localVars, run, hist >>

\* if not self.soup (line 162)
NeedsLoadMutant(s) == TRUE

NeedsLoad(s) == ~Truthy(s)

Bundle ==
    [ failed |-> failed, scores |-> scores, overall_score |-> overall_score,
      free_data_sources |-> free_data, recommendations |-> recommendations ]

\* analyze() is called (lines 151-172): the choice of loader.
BeginAnalyze ==
    /\ pc \in { "idle", "done", "raised" }
    /\ run < MaxRuns
    /\ run' = run + 1
    /\ pc' = IF NeedsLoad(soup)
             THEN IF web.playwright THEN "playwright" ELSE "requests"
             ELSE "gather"
    /\ hist' = [ hist EXCEPT !.attempts = << >>,
                             !.prev = IF pc = "done" THEN Bundle ELSE @ ]
    /\ failed' = {}
    /\ aux' = EmptyDict
    /\ sig' = EmptyDict
    /\ scores' = EmptyDict
    /\ free_data' = EmptyDict
    /\ overall_score' = Unset
    /\ recommendations' = << >>
    /\ UNCHANGED << weights, url, web, analyzerVars >>

PlaywrightOutcomes == { "goto_raises", "content_raises", "close_raises", "ok" }

\* load_with_playwright (lines 83-119).  goto_raises: launch, new_page or
\* goto raises; content_raises: page.content() raises after the timing and
\* the metrics were stored; close_raises: browser.close() raises in the
\* finally block after the page was parsed.  Any raise sends analyze() to
\* the fallback loader (lines 168-170).
LoadWithPlaywright(outcome) ==
    /\ pc = "playwright"
    /\ IF outcome = "goto_raises"
       THEN UNCHANGED << performance_metrics, load_time >>
       ELSE /\ performance_metrics' = web.metrics
            /\ load_time' = IF ~IsNone(web.metrics) /\ web.metrics.load_time # 0
                            THEN web.metrics.load_time ELSE web.pw_time
    /\ IF outcome \in { "close_raises", "ok" }
       THEN /\ html' = web.dynamic.html
            /\ text' = web.dynamic.text
            /\ soup' = web.dynamic.soup
       ELSE UNCHANGED << html, text, soup >>
    /\ pc' = IF outcome = "ok" THEN "gather" ELSE "requests"
    /\ hist' = [ hist EXCEPT
                   !.attempts = Append(@, << "playwright", outcome >>),
                   !.loader_ok = @ \/ outcome = "ok",
                   !.source = IF outcome \in { "close_raises", "ok" }
                              THEN "playwright" ELSE @ ]
    /\ UNCHANGED << weights, url, web, localVars, run >>

\* A variant that leaves self.performance_metrics as the browser loader set it.
LoadWithRequestsMutant(outcome) ==
    /\ pc = "requests"
    /\ IF outcome = "ok"
       THEN /\ html' = web.static.html
            /\ load_time' = web.http_time
            /\ soup' = web.static.soup
            /\ text' = web.static.text
            /\ UNCHANGED performance_metrics
       ELSE UNCHANGED analyzerVars
    /\ pc' = IF outcome = "ok" THEN "gather" ELSE "raised"
    /\ hist' = [ hist EXCEPT
                   !.attempts = Append(@, << "requests", outcome >>),
                   !.loader_ok = @ \/ outcome = "ok",
                   !.source = IF outcome = "ok" THEN "requests" ELSE @ ]
    /\ UNCHANGED << weights, url, web, localVars, run >>

\* load_with_requests (lines 121-136).  raises: the fetch raises and
\* analyze() propagates the exception.
LoadWithRequests(outcome) ==
    /\ pc = "requests"
    /\ IF outcome = "ok"
       THEN /\ html' = web.static.html
            /\ load_time' = web.http_time
            /\ soup' = web.static.soup
            /\ text' = web.static.text
            /\ performance_metrics' = None
       ELSE UNCHANGED analyzerVars
    /\ pc' = IF outcome = "ok" THEN "gather" ELSE "raised"
    /\ hist' = [ hist EXCEPT
                   !.attempts = Append(@, << "requests", outcome >>),
                   !.loader_ok = @ \/ outcome = "ok",
                   !.source = IF outcome = "ok" THEN "requests" ELSE @ ]
    /\ UNCHANGED << weights, url, web, localVars, run >>

\* What each collector returns when it does not raise.
CollectorResult(c) ==
    CASE c = "performance" ->
             GetFreePerformanceData(performance_metrics, load_time, web.lighthouse)
      [] c = "mobile"   -> GetMobileFriendlyCheck(soup)
      [] c = "seo"      -> GetSeoDataFree(web.search)
      [] c = "security" -> GetSslSecurityInfo(url)
      [] c = "social"   -> GetSocialMetricsFree(html, soup)

\* Lines 185-189: x if isinstance(x, dict) else {}
OrEmptyMutant(F, c) == CollectorResult(c)

OrEmpty(F, c) == IF c \in F THEN EmptyDict ELSE CollectorResult(c)

\* asyncio.gather(..., return_exceptions=True) and the conversion of the
\* exceptions (lines 174-189); F: the collectors that raise.
Gather(F) ==
    /\ pc = "gather"
    /\ failed' = F
    /\ aux' = [ c \in Collectors |-> OrEmpty(F, c) ]
    /\ pc' = "extract"
    /\ UNCHANGED << weights, url, web, analyzerVars, sig, scores, free_data,
                    overall_score, recommendations, run, hist >>

\* Lines 191-282
Extract ==
    /\ pc = "extract"
    /\ sig' = ExtractSignals(text, soup, html, url)
    /\ pc' = "score"
    /\ UNCHANGED << weights, url, web, analyzerVars, failed, aux, scores,
                    free_data, overall_score, recommendations, run, hist >>

\* Lines 284-295
Score ==
    /\ pc = "score"
    /\ scores' = ComputeScores(text, soup, html, url, aux, sig)
    /\ pc' = "assemble"
    /\ UNCHANGED << weights, url, web, analyzerVars, failed, aux, sig,
                    free_data, overall_score, recommendations, run, hist >>

\* A variant that generates the recommendations while the results dictionary
\* is built, before the overall score exists.
AssembleMutant ==
    /\ pc = "assemble"
    /\ sig' = AttachSignals(sig, scores)
    /\ aux' = AttachAux(aux, scores)
    /\ free_data' = FreeDataSources(aux', sig')
    /\ recommendations' = GenerateRecommendations(scores, free_data')
    /\ pc' = "aggregate"
    /\ UNCHANGED << weights, url, web, analyzerVars, failed, scores,
                    overall_score, run, hist >>

\* Lines 297-337: the scores are attached and the results dictionary built.
Assemble ==
    /\ pc = "assemble"
    /\ sig' = AttachSignals(sig, scores)
    /\ aux' = AttachAux(aux, scores)
    /\ free_data' = FreeDataSources(aux', sig')
    /\ pc' = "aggregate"
    /\ UNCHANGED << weights, url, web, analyzerVars, failed, scores,
                    overall_score, recommendations, run, hist >>

\* Lines 339-344
Aggregate ==
    /\ pc = "aggregate"
    /\ overall_score' = OverallScore(scores, weights)
    /\ pc' = "recommend"
    /\ UNCHANGED << weights, url, web, analyzerVars, failed, aux, sig, scores,
                    free_data, recommendations, run, hist >>

\* Lines 345-347: the recommendations are generated and the bundle returned.
Recommend ==
    /\ pc = "recommend"
    /\ recommendations' = GenerateRecommendations(scores, free_data)
    /\ pc' = "done"
    /\ UNCHANGED << weights, url, web, analyzerVars, failed, aux, sig, scores,
                    free_data, overall_score, run, hist >>

Pipeline == Extract \/ Score \/ Assemble \/ Aggregate \/ Recommend

Next ==
    \/ Import
    \/ BeginAnalyze
    \/ \E o \in PlaywrightOutcomes : LoadWithPlaywright(o)
    \/ \E o \in { "ok", "raises" } : LoadWithRequests(o)
    \/ \E F \in SUBSET Collectors : Gather(F)
    \/ Pipeline

Spec == Init /\ [][Next]_vars

-----------------------------------------------------------------------------
(* Scoring of one loaded page: analyze() from the gather step on, over the  *)
(* whole input space of pages, URLs and collaborator answers.               *)

LoadedHistory == [ NoHistory EXCEPT !.loader_ok = TRUE, !.source = "requests",
                                    !.attempts = << << "requests", "ok" >> >> ]

ScoreInit ==
    /\ weights = SCORING_WEIGHTS
    /\ pc = "gather"
    /\ url \in Urls
    /\ text \in Texts
    /\ soup \in Soups
    /\ html \in Htmls
    /\ \E ans \in SearchAnswers, lh \in { None, LighthouseReport } :
          web = World(Page(text, soup, html), Page(text, soup, html), FALSE,
                      ans, lh, None)
    /\ performance_metrics = None
    /\ load_time \in { 0, 800 }
    /\ NoLocals
    /\ run = 1
    /\ hist = LoadedHistory

ScoreNext ==
    \/ \E F \in { {}, Collectors } : Gather(F)
    \/ Pipeline

SpecScore == ScoreInit /\ [][ScoreNext]_vars

-----------------------------------------------------------------------------
(* generate_recommendations as a function of any ScoreSet and signal bundle *)

ScoreVals ==
    { 0, 4996, 4999, 5000, 6999, 7000, 8499, 8500, 9499, 9500, 10000 }

\* A ScoreSet with scores in every tier, two of them equal.
MixedScores ==
    [ readability        |-> 4200,
      informativeness    |-> 3000,
      engagement         |-> 6500,
      uniqueness         |-> 6500,
      discoverability    |-> 8500,
      ad_experience      |-> 10000,
      social_integration |-> 0,
      layout_quality     |-> 7200,
      seo_keywords       |-> 9000 ]

BaseScores ==
    { [ c \in Criteria |-> 4999 ], [ c \in Criteria |-> 8500 ], MixedScores }

\* A base ScoreSet with one criterion at any value.
ScoreSets ==
    { [ b EXCEPT ![d] = v ] : b \in BaseScores, d \in Criteria, v \in ScoreVals }

\* A signal bundle no data-driven rule fires on.
GoodFree ==
    [ keyword_analysis    |-> [ keyword_density |-> 150 ],
      internal_linking    |-> [ internal_links |-> 12, external_links |-> 4 ],
      security            |-> [ https |-> TRUE, secure |-> TRUE ],
      citation_analysis   |-> [ citation_count |-> 8 ],
      content_stats       |-> [ word_count |-> 1500, header_count |-> 8,
                                image_count |-> 5 ],
      mobile              |-> [ has_viewport |-> TRUE,
                                handheld_friendly |-> TRUE ],
      readability_details |-> [ schema_markup_count |-> 2 ],
      seo                 |-> [ indexed |-> TRUE ],
      performance         |-> [ load_time |-> 1500 ] ]

\* A signal bundle every data-driven rule fires on.
BadFree ==
    [ keyword_analysis    |-> [ keyword_density |-> 0 ],
      internal_linking    |-> [ internal_links |-> 0, external_links |-> 0 ],
      security            |-> [ https |-> FALSE, secure |-> FALSE ],
      citation_analysis   |-> [ citation_count |-> 0 ],
      content_stats       |-> [ word_count |-> 0, header_count |-> 0,
                                image_count |-> 0 ],
      mobile              |-> [ has_viewport |-> FALSE,
                                handheld_friendly |-> FALSE ],
      readability_details |-> [ schema_markup_count |-> 0 ],
      seo                 |-> EmptyDict,
      performance         |-> [ load_time |-> 6000 ] ]

Without(d, k) == [ x \in DOMAIN d \ {k} |-> d[x] ]

\* The bundles that differ from fd in one signal.
Variations(fd) ==
    { [ fd EXCEPT !.keyword_analysis = [ keyword_density |-> v ] ] :
        v \in { 0, 49, 50, 99, 100, 200, 250, 251, 300, 301 } }
    \cup { [ fd EXCEPT !.internal_linking.internal_links = v ] :
             v \in { 0, 2, 3, 4, 5, 9, 10, 50, 51 } }
    \cup { [ fd EXCEPT !.internal_linking.external_links = v ] :
             v \in { 0, 1, 2, 30, 31 } }
    \cup { [ fd EXCEPT !.security = v ] :
             v \in { EmptyDict, [ https |-> FALSE, secure |-> FALSE ],
                     [ https |-> TRUE, secure |-> TRUE ] } }
    \cup { Without(fd, "security") }
    \cup { [ fd EXCEPT !.citation_analysis.citation_count = v ] :
             v \in { 0, 2, 3, 4, 5, 20, 21 } }
    \cup { [ fd EXCEPT !.content_stats.word_count = v ] :
             v \in { 0, 299, 300, 599, 600, 999, 1000, 3000, 3001 } }
    \cup { [ fd EXCEPT !.content_stats.header_count = v ] :
             v \in { 0, 2, 3, 4, 5, 20, 21 } }
    \cup { [ fd EXCEPT !.content_stats.image_count = v ] :
             v \in { 0, 1, 2, 3, 20, 21 } }
    \cup { [ fd EXCEPT !.mobile = v ] :
             v \in { EmptyDict, [ mobile_friendly |-> TRUE ],
                     [ has_viewport |-> TRUE, handheld_friendly |-> FALSE ],
                     [ has_viewport |-> FALSE, handheld_friendly |-> TRUE ] } }
    \cup { [ fd EXCEPT !.readability_details = v ] :
             v \in { EmptyDict, [ schema_markup_count |-> 0 ],
                     [ schema_markup_count |-> 1 ],
                     [ schema_markup_count |-> 2 ] } }
    \cup { Without(fd, "seo") }
    \cup { [ fd EXCEPT !.performance = v ] :
             v \in { EmptyDict, [ source |-> "lighthouse_cli" ] }
                   \cup { [ load_time |-> x ] :
                            x \in { 0, 999, 1000, 2000, 2001, 3000, 3001,
                                    5000, 5001 } } }
    \cup { Without(fd, "performance") }

FreeBundles == Variations(GoodFree) \cup Variations(BadFree) \cup { EmptyDict }

RecInit ==
    /\ weights = SCORING_WEIGHTS
    /\ pc = "rec_call"
    /\ url = GuideUrl
    /\ web = World(BlankPage, BlankPage, FALSE, "indexed", None, None)
    /\ FreshAnalyzer
    /\ failed = {}
    /\ aux = EmptyDict
    /\ sig = EmptyDict
    /\ scores \in ScoreSets
    /\ free_data \in FreeBundles
    /\ overall_score = Unset
    /\ recommendations = << >>
    /\ run = 0
    /\ hist = NoHistory

\* A call generate_recommendations(scores, free_data)
GenerateCall ==
    /\ pc = "rec_call"
    /\ recommendations' = GenerateRecommendations(scores, free_data)
    /\ pc' = "rec_done"
    /\ UNCHANGED << weights, url, web, analyzerVars, failed, aux, sig, scores,
                    free_data, overall_score, run, hist >>

RecNext == GenerateCall

SpecRec == RecInit /\ [][RecNext]_vars

-----------------------------------------------------------------------------
(* Loading the package with any weight vector *)

WeightDeltas == { 0 - 500, 0 - 11, 0 - 9, 0 - 1, 0, 1, 9, 11, 500 }

\* The shipped vector with one weight changed.
WeightVectors ==
    { [ SCORING_WEIGHTS EXCEPT ![c] = @ + d ] : c \in Criteria, d \in WeightDeltas }

LoadInit ==
    /\ weights \in WeightVectors
    /\ pc = "import"
    /\ url = DeepUrl
    /\ web = World(BlogPage, BlogPage, FALSE, "indexed", None, None)
    /\ FreshAnalyzer
    /\ NoLocals
    /\ run = 0
    /\ hist = NoHistory

LoadNext ==
    \/ Import
    \/ BeginAnalyze
    \/ \E o \in { "ok", "raises" } : LoadWithRequests(o)
    \/ Gather({})
    \/ Pipeline

SpecLoad == LoadInit /\ [][LoadNext]_vars

-----------------------------------------------------------------------------
(* The extractors and scorers as functions, called on any text, DOM       *)
(* (present or absent), markup, URL and auxiliary dictionaries.           *)

\* Token statistics for analyze_keywords: << len(words), summed frequency of
\* the ten most frequent non-stop words >>.
KeywordCounts ==
    { << 0, 0 >>, << 3, 1 >>, << 3, 2 >>, << 3, 3 >>,
      << 100, 0 >>, << 100, 1 >>, << 100, 2 >>, << 100, 3 >>, << 100, 15 >>,
      << 100, 49 >>, << 100, 50 >>, << 100, 99 >>, << 100, 100 >>,
      << 200, 1 >>, << 200, 3 >>, << 200, 4 >>, << 200, 5 >>, << 200, 6 >>,
      << 200, 7 >>, << 300, 1 >>, << 400, 1 >>, << 400, 2 >>,
      << 1000, 10 >>, << 1000, 15 >>, << 1000, 20 >>, << 1000, 30 >> }

KeywordTexts ==
    { [ ArticleText EXCEPT !.kw_total = k[1], !.kw_top = k[2],
                           !.kw_distinct = Min(10, k[2]) ] :
        k \in KeywordCounts }

FnTexts == Texts \cup KeywordTexts

\* Anchor statistics for analyze_internal_linking: << hrefs starting with
\* '/', other hrefs >>.
LinkCounts ==
    { << 2, 3 >>, << 5, 5 >>, << 1, 2 >>, << 39, 61 >>, << 59, 41 >> }

LinkSoups ==
    { [ BlogSoup EXCEPT !.a_slash = k[1], !.a_domain = 0, !.a_other = k[2],
                        !.a = k[1] + k[2] + 1 ] : k \in LinkCounts }

FnSoups == Soups \cup LinkSoups \cup { None }

\* Markup without any ad indicator.
CleanHtml ==
    [ len |-> 300, ad_hits |-> 0, fonts |-> 1, hex_colors |-> 0,
      platforms |-> {} ]

FnHtmls == Htmls \cup { CleanHtml }

\* The auxiliary dictionaries handed to the scorers: all empty, or filled.
FnAux ==
    { [ c \in Collectors |-> EmptyDict ],
      [ performance |-> [ load_time |-> 800, source |-> "basic" ],
        mobile      |-> [ mobile_friendly |-> TRUE, has_viewport |-> TRUE,
                          handheld_friendly |-> FALSE,
                          touch_optimized |-> TRUE ],
        seo         |-> [ indexed |-> TRUE ],
        security    |-> [ https |-> TRUE, secure |-> TRUE ],
        social      |-> [ facebook |-> TRUE, twitter |-> TRUE,
                          sharing_buttons |-> 4 ] ],
      [ performance |-> [ load_time |-> 5200, source |-> "basic" ],
        mobile      |-> [ mobile_friendly |-> TRUE, has_viewport |-> FALSE,
                          handheld_friendly |-> TRUE,
                          touch_optimized |-> FALSE ],
        seo         |-> [ indexed |-> FALSE ],
        security    |-> [ https |-> FALSE, secure |-> FALSE ],
        social      |-> [ facebook |-> FALSE, twitter |-> FALSE,
                          sharing_buttons |-> 0 ] ] }

\* The value each extractor returns.
ExtractorResults(t, s, h, u) ==
    [ citation_analysis |-> AnalyzeCitations(t, s),
      keyword_analysis  |-> AnalyzeKeywords(t),
      internal_linking  |-> AnalyzeInternalLinking(s, u),
      content_freshness |-> AnalyzeContentFreshness(t),
      design            |-> AnalyzeDesignQuality(s, h),
      skimming          |-> AnalyzeSkimmingOptimization(s),
      ad_placement      |-> AnalyzeAdPlacement(s),
      autoplay          |-> DetectAutoplayMedia(s),
      url_structure     |-> AnalyzeUrlStructure(u) ]

FnInit ==
    /\ weights = SCORING_WEIGHTS
    /\ pc = "fn_call"
    /\ url \in Urls
    /\ text \in FnTexts
    /\ soup \in FnSoups
    /\ html \in FnHtmls
    /\ web = World(BlankPage, BlankPage, FALSE, "indexed", None, None)
    /\ performance_metrics = None
    /\ load_time = NoTime
    /\ failed = {}
    /\ aux \in FnAux
    /\ sig = EmptyDict
    /\ scores = EmptyDict
    /\ free_data = EmptyDict
    /\ overall_score = Unset
    /\ recommendations = << >>
    /\ run = 0
    /\ hist = NoHistory

\* Every extractor, then every scorer, is called on the inputs.
CallFunctions ==
    /\ pc = "fn_call"
    /\ sig' = ExtractorResults(text, soup, html, url)
    /\ scores' = ComputeScores(text, soup, html, url, aux, sig')
    /\ pc' = "fn_done"
    /\ UNCHANGED << weights, url, web, analyzerVars, failed, aux, free_data,
                    overall_score, recommendations, run, hist >>

\* The dictionary d restricted to the keys K.
Only(d, K) == [ x \in DOMAIN d \cap K |-> d[x] ]

\* The formulas a scores dictionary holds.
KeySets ==
    { FormulaNames, {}, { "flesch_reading_ease" },
      FormulaNames \ { "flesch_reading_ease" }, { "gunning_fog", "smog_index" } }

\* A call normalize_readability_scores(d), d holding the text's formula
\* values for the keys K only.
CallNormalize(K) ==
    /\ pc = "fn_call"
    /\ sig' = [ readability_details |-> Only(FormulaScores(text), K) ]
    /\ scores' = [ readability |->
                     NormalizeReadabilityScores(sig'.readability_details) ]
    /\ pc' = "norm_done"
    /\ UNCHANGED << weights, url, web, analyzerVars, failed, aux, free_data,
                    overall_score, recommendations, run, hist >>

FnNext == CallFunctions \/ \E K \in KeySets : CallNormalize(K)

SpecFn == FnInit /\ [][FnNext]_vars

-----------------------------------------------------------------------------
(* Properties of the scores and of the overall score (SpecScore) *)

Scored == pc \in { "assemble", "aggregate", "recommend", "done" }

\* C1: the scores mapping built by analyze() has exactly the nine criterion
\* keys and every value lies between 0 and 100 (0 and 10000 hundredths).
C1_ScoresNineKeysInRange ==
    Scored => /\ DOMAIN scores = Criteria
              /\ \A c \in Criteria : 0 <= scores[c] /\ scores[c] <= Pts(100)

\* C1 witness: a page whose advertising penalties exceed 100 points has been
\* scored, and its ad_experience score is the clamped value 0.
C1_Witness ==
    /\ pc = "done"
    /\ Pts(html.ad_hits * 5) > Pts(100)
    /\ scores["ad_experience"] = 0
    /\ \E c \in Criteria : scores[c] = Pts(100)

\* The sum of the nine weighted contributions, in millionths of a point.
Contributions ==
    SumOver([ c \in Criteria |-> scores[c] * SCORING_WEIGHTS[c] ], Criteria)

LeastScore == CHOOSE x \in { scores[c] : c \in Criteria } :
                  \A c \in Criteria : x <= scores[c]

GreatestScore == CHOOSE x \in { scores[c] : c \in Criteria } :
                     \A c \in Criteria : x >= scores[c]

\* C2: overall_score is the weighted sum of the nine scores rounded to two
\* decimals (the hundredth nearest to the sum), it is less than 0.1 away from
\* the sum of the contributions, and it lies between the least and the
\* greatest of the nine scores.
C2_OverallIsRoundedWeightedSum ==
    pc \in { "recommend", "done" } =>
        /\ 2 * Abs(overall_score * 10000 - Contributions) <= 10000
        /\ Abs(overall_score * 10000 - Contributions) < 100000
        /\ LeastScore <= overall_score
        /\ overall_score <= GreatestScore
        /\ 0 <= overall_score /\ overall_score <= Pts(100)

\* C2 witness: a bundle whose weighted sum is not a whole number of
\* hundredths, so the rounding changed it, with unequal scores.
C2_Witness ==
    /\ pc = "done"
    /\ Contributions % 10000 # 0
    /\ LeastScore < GreatestScore
    /\ overall_score > 0

-----------------------------------------------------------------------------
(* Properties of the load-time validation (SpecLoad) *)

WeightSum == SumOver(weights, DOMAIN weights)

LoadState ==
    /\ pc = "refused" =>
          /\ ~(Abs(WeightSum - 10000) < 10)
          /\ run = 0
          /\ scores = EmptyDict /\ overall_score = Unset
    /\ pc \notin { "import", "refused" } => Abs(WeightSum - 10000) < 10
    /\ weights = SCORING_WEIGHTS =>
          /\ pc # "refused"
          /\ DOMAIN weights = Criteria
          /\ \A c \in Criteria : weights[c] > 0

\* C3: the weights are validated at import: a vector whose sum is not within
\* 0.001 of 1.0 is refused, after which no analysis ever starts, and a vector
\* is never changed (no renormalisation); the shipped vector passes, is
\* positive and has exactly the nine criterion keys.
C3_WeightsValidatedAtLoad ==
    /\ []LoadState
    /\ [][weights' = weights /\ (pc = "refused" => pc' = "refused")]_vars

\* C3 witness: a vector whose sum is off by 0.0011 has been refused.
C3_Witness ==
    /\ pc = "refused"
    /\ Abs(WeightSum - 10000) = 11

-----------------------------------------------------------------------------
(* Properties of generate_recommendations (SpecRec) *)

\* The tier the thresholds 50, 70, 85, 95 assign to a score.
ThresholdTier(s) ==
    IF s < 5000 THEN "CRITICAL"
    ELSE IF s < 7000 THEN "HIGH"
    ELSE IF s < 8500 THEN "MEDIUM"
    ELSE IF s < 9500 THEN "LOW"
    ELSE "EXCELLENT"

TierRank(t) == CHOOSE i \in 1..Len(TemplateTier) : TemplateTier[i] = t

TemplatesOf(c) == { Templates[c][i] : i \in 1..Len(Templates[c]) }

\* The messages of the list that are worded from criterion c's templates.
CriterionMessages(c) ==
    SelectSeq(recommendations, LAMBDA m : m.text \in TemplatesOf(c))

\* C4: for each criterion the list holds exactly one criterion message; its
\* prefix is the tier the thresholds assign to the score (a boundary score
\* belongs to the higher tier) and its wording is that tier's template.
C4_OneMessagePerCriterionByTier ==
    pc = "rec_done" =>
        \A c \in Criteria :
            /\ Len(CriterionMessages(c)) = 1
            /\ CriterionMessages(c)[1].tier = ThresholdTier(scores[c])
            /\ CriterionMessages(c)[1].text =
                   Templates[c][TierRank(ThresholdTier(scores[c]))]

\* C4 witness: a criterion scored exactly 50.0 received the HIGH message.
C4_Witness ==
    /\ pc = "rec_done"
    /\ \E c \in Criteria :
          /\ scores[c] = 5000
          /\ \E i \in 1..Len(recommendations) :
                recommendations[i] = Msg("HIGH", Templates[c][2], 500)

IsCriterionMessage(m) == \E c \in Criteria : m.text \in TemplatesOf(c)

CriterionOf(m) == CHOOSE c \in Criteria : m.text \in TemplatesOf(c)

\* The position of a data-driven message in the order the rules emit them.
RulePosition(m) ==
    LET dd == DataDrivenRecs(free_data, scores)
    IN  CHOOSE k \in 1..Len(dd) : dd[k] = m

\* C5: the list is ordered CRITICAL, HIGH, MEDIUM, LOW, EXCELLENT, every
\* message has one of the five prefixes, and within a tier the criterion
\* messages come first, in ascending order of score, followed by the
\* data-driven messages in the order of their rules.  Each of these orders is
\* transitive, so it is stated of every message and its successor.
C5_SortedByTierStable ==
    pc = "rec_done" =>
        /\ \A i \in 1..Len(recommendations) : recommendations[i].tier \in Tiers
        /\ \A i \in 1..(Len(recommendations) - 1) :
              LET a == recommendations[i]
                  b == recommendations[i + 1]
              IN  /\ TierRank(a.tier) <= TierRank(b.tier)
                  /\ a.tier = b.tier =>
                       /\ IsCriterionMessage(b) => IsCriterionMessage(a)
                       /\ IsCriterionMessage(a) /\ IsCriterionMessage(b) =>
                             scores[CriterionOf(a)] <= scores[CriterionOf(b)]
                       /\ ~IsCriterionMessage(a) /\ ~IsCriterionMessage(b) =>
                             RulePosition(a) < RulePosition(b)

\* C5 witness: a list whose CRITICAL tier holds criterion messages of
\* different scores followed by two data-driven messages, and whose later
\* tiers hold criterion messages too, so the sort moved data-driven messages
\* in front of criterion messages.
C5_Witness ==
    /\ pc = "rec_done"
    /\ Len(recommendations) >= 6
    /\ \A i \in 1..5 : recommendations[i].tier = "CRITICAL"
    /\ IsCriterionMessage(recommendations[1])
    /\ IsCriterionMessage(recommendations[2])
    /\ scores[CriterionOf(recommendations[1])]
          < scores[CriterionOf(recommendations[2])]
    /\ IsCriterionMessage(recommendations[3])
    /\ ~IsCriterionMessage(recommendations[4])
    /\ ~IsCriterionMessage(recommendations[5])
    /\ \E j \in 6..Len(recommendations) :
          /\ recommendations[j].tier = "HIGH"
          /\ IsCriterionMessage(recommendations[j])

\* C6 as stated: the returned list never has more than ten entries.
C6_TruncatedToTen == Len(recommendations) <= 10

\* C6: the returned list is not truncated: it holds the nine criterion
\* messages and every message the data-driven rules emit, between 9 and 21
\* entries.
C6_ListIsComplete ==
    pc = "rec_done" =>
        /\ Len(recommendations)
             = Cardinality(Criteria) + Len(DataDrivenRecs(free_data, scores))
        /\ Len(recommendations) >= 9
        /\ Len(recommendations) <= 21

\* C6 witness: a returned list of 21 entries.
C6_Witness == pc = "rec_done" /\ Len(recommendations) = 21

HasHttpsMessage ==
    \E i \in 1..Len(recommendations) :
        /\ recommendations[i].text = "Site not using HTTPS"
        /\ recommendations[i].tier = "CRITICAL"

\* C7: the list holds the CRITICAL message "Site not using HTTPS" exactly
\* when the security signal does not say https is true (https false, or the
\* security dictionary empty or absent), whatever the scores and the other
\* signals are.
C7_HttpsMessage ==
    pc = "rec_done" =>
        LET security == IF "security" \in DOMAIN free_data
                        THEN free_data["security"] ELSE EmptyDict
            https == IF "https" \in DOMAIN security
                     THEN security["https"] ELSE FALSE
        IN  /\ ~https => HasHttpsMessage
            /\ https => \A i \in 1..Len(recommendations) :
                            recommendations[i].text # "Site not using HTTPS"

\* C7 witness: the message was emitted for a bundle without a security
\* dictionary whose nine scores are all at least 85.
C7_Witness ==
    /\ pc = "rec_done"
    /\ free_data # EmptyDict
    /\ "security" \notin DOMAIN free_data
    /\ \A c \in Criteria : scores[c] >= 8500
    /\ HasHttpsMessage

-----------------------------------------------------------------------------
(* Properties of the analyze() pipeline (Spec) *)

Passed(c) == IF c \in failed THEN EmptyDict ELSE CollectorResult(c)

\* C8: whatever subset of the five collectors raises, each failed source is
\* the empty dictionary and each other source is what its collector returned
\* when the scorers read them, the result carries them with those keys and
\* values, and the call ends with nine scores, an overall score and
\* recommendations.
C8_PartialFailureTolerated ==
    /\ pc \in { "extract", "score", "assemble" } =>
          \A c \in Collectors : aux[c] = Passed(c)
    /\ pc \in { "aggregate", "recommend", "done" } =>
          \A c \in Collectors :
              \A k \in DOMAIN Passed(c) :
                  k \in DOMAIN free_data[c] /\ free_data[c][k] = Passed(c)[k]
    /\ pc = "done" =>
          /\ DOMAIN scores = Criteria
          /\ overall_score # Unset
          /\ Len(recommendations) >= Cardinality(Criteria)

\* C8 witness: a call in which the mobile and security collectors raised and
\* the other three returned signals has returned its bundle.
C8_Witness ==
    /\ pc = "done"
    /\ failed = { "mobile", "security" }
    /\ free_data["mobile"] = EmptyDict
    /\ free_data["seo"] # EmptyDict
    /\ free_data["performance"] # EmptyDict

PastAcquisition ==
    pc \in { "gather", "extract", "score", "assemble", "aggregate",
             "recommend", "done" }

\* C9 as stated: the browser loader is tried first when enabled, then the
\* HTTP loader, and analyze() raises when that one raises; no step after
\* acquisition runs unless a loader has succeeded, and none sees self.soup
\* None.
C9_ScoringOnlyAfterLoaderSuccess ==
    /\ hist.attempts \in
          { << >>, << << "requests", "ok" >> >>,
            << << "requests", "raises" >> >> }
          \cup { << << "playwright", o >> >> : o \in PlaywrightOutcomes }
          \cup { << << "playwright", o >>, << "requests", r >> >> :
                   o \in PlaywrightOutcomes \ { "ok" }, r \in { "ok", "raises" } }
    /\ hist.attempts # << >> =>
          hist.attempts[1][1] = (IF web.playwright THEN "playwright"
                                 ELSE "requests")
    /\ pc = "raised" =>
          hist.attempts[Len(hist.attempts)] = << "requests", "raises" >>
    /\ PastAcquisition => hist.loader_ok
    /\ PastAcquisition => ~IsNone(soup)

\* C9 witness: a second call is scoring the page a failed first call left
\* behind, and no loader has ever succeeded.
C9_Witness ==
    /\ pc = "score"
    /\ run = 2
    /\ ~hist.loader_ok
    /\ hist.source = "playwright"
    /\ ~IsNone(soup)

-----------------------------------------------------------------------------
(* Properties of the extractors and scorers as functions (SpecFn) *)

\* C11: called with empty text and no DOM, every extractor and scorer
\* returns, the scorers give readability 50 and informativeness, engagement,
\* uniqueness and discoverability 0, and every extractor gives its
\* zero-valued default.
C11_EmptyInputDefaults ==
    pc = "fn_done" /\ text.len = 0 /\ IsNone(soup) =>
        /\ DOMAIN scores = Criteria
        /\ scores["readability"] = 5000
        /\ scores["informativeness"] = 0
        /\ scores["engagement"] = 0
        /\ scores["uniqueness"] = 0
        /\ scores["discoverability"] = 0
        /\ sig.citation_analysis =
              [ citation_count |-> 0, source_count |-> 0, citation_score |-> 0 ]
        /\ sig.keyword_analysis =
              [ primary_keywords |-> 0, keyword_density |-> 0,
                keyword_score |-> 0 ]
        /\ sig.internal_linking =
              [ internal_links |-> 0, external_links |-> 0, linking_score |-> 0 ]
        /\ sig.content_freshness =
              [ last_updated |-> None, update_frequency |-> 0,
                freshness_score |-> 0 ]
        /\ sig.design =
              [ whitespace_score |-> 0, typography_score |-> 0,
                color_contrast_score |-> 0, visual_hierarchy_score |-> 0 ]
        /\ sig.skimming = 0
        /\ sig.ad_placement = 0
        /\ sig.autoplay = 0

\* C11 witness: the functions have returned for empty text, no DOM and
\* non-empty auxiliary dictionaries.
C11_Witness ==
    /\ pc = "fn_done"
    /\ text = EmptyText
    /\ IsNone(soup)
    /\ aux["seo"] # EmptyDict
    /\ scores["readability"] = 5000
    /\ scores["engagement"] = 0

\* C12 as stated: when the text has tokens, keyword_score follows the
\* stored keyword_density (a percentage): 15 when it is in [1,2], 10 when it
\* is in [0.5,3] but not in [1,2], 5 otherwise.
C12_KeywordScoreFromDensity ==
    pc = "fn_done" /\ text.len > 0 /\ text.kw_total > 0 =>
        LET density == sig.keyword_analysis.keyword_density
        IN  sig.keyword_analysis.keyword_score =
                IF 100 <= density /\ density <= 200 THEN 1500
                ELSE IF 50 <= density /\ density <= 300 THEN 1000
                ELSE 500

\* C12 witness: a text whose stored density is 1.5 percent was given the
\* keyword_score 5.
C12_Witness ==
    /\ pc = "fn_done"
    /\ text.kw_total = 1000
    /\ sig.keyword_analysis.keyword_density = 150
    /\ sig.keyword_analysis.keyword_score = 500

\* The stored density is the hundredth of a percent nearest to
\* 100 * kw_top / kw_total.
DensityIsRoundedRatio ==
    2 * Abs(sig.keyword_analysis.keyword_density * text.kw_total
            - text.kw_top * 10000) <= text.kw_total

\* C13 as stated: keyword_density is the top-ten share of the tokens in
\* percent, rounded to 2 decimals, and 100 tokens with a top-ten total of 15
\* give keyword_density 15.00 and keyword_score 10.
C13_DensityScenarioScoreTen ==
    pc = "fn_done" /\ text.len > 0 /\ text.kw_total > 0 =>
        /\ DensityIsRoundedRatio
        /\ text.kw_total = 100 /\ text.kw_top = 15 =>
              /\ sig.keyword_analysis.keyword_density = 1500
              /\ sig.keyword_analysis.keyword_score = 1000

\* C13: keyword_density is the top-ten share of the tokens in percent,
\* rounded to 2 decimals, and 100 tokens with a top-ten total of 15 give
\* keyword_density 15.00 and keyword_score 5.
C13_DensityScenarioScoreFive ==
    pc = "fn_done" /\ text.len > 0 /\ text.kw_total > 0 =>
        /\ DensityIsRoundedRatio
        /\ text.kw_total = 100 /\ text.kw_top = 15 =>
              /\ sig.keyword_analysis.keyword_density = 1500
              /\ sig.keyword_analysis.keyword_score = 500

\* C13 witness: the scenario text has been analysed.
C13_Witness ==
    /\ pc = "fn_done"
    /\ text.kw_total = 100
    /\ text.kw_top = 15
    /\ sig.keyword_analysis.keyword_density = 1500
    /\ sig.keyword_analysis.keyword_score = 500

\* C14: every anchor with an href is counted once, as internal (href
\* starting with '/' or containing the domain string) or as external;
\* linking_score is 0 without links, 15 when internal/total >= 0.6, 10 when
\* it is in [0.4, 0.6), 5 otherwise; 6 internal and 4 external anchors give 15.
C14_LinkClassificationAndScore ==
    pc = "fn_done" /\ ~IsNone(soup) =>
        LET internal == sig.internal_linking.internal_links
            external == sig.internal_linking.external_links
            total    == internal + external
            score    == sig.internal_linking.linking_score
        IN  /\ total = soup.a_slash + soup.a_domain + soup.a_other
            /\ internal >= soup.a_slash + soup.a_domain
            /\ url.netloc => external = soup.a_other
            /\ score = IF total = 0 THEN 0
                       ELSE IF 10 * internal >= 6 * total THEN 1500
                       ELSE IF 10 * internal >= 4 * total THEN 1000
                       ELSE 500
            /\ internal = 6 /\ external = 4 => score = 1500

\* C14 witness: a page with 6 internal and 4 external anchors was given the
\* linking_score 15.
C14_Witness ==
    /\ pc = "fn_done"
    /\ ~IsNone(soup)
    /\ soup.a_slash = 4 /\ soup.a_domain = 2 /\ soup.a_other = 4
    /\ sig.internal_linking =
          [ internal_links |-> 6, external_links |-> 4, linking_score |-> 1500 ]

\* 100 - 5 x indicator hits - ad_placement_score - autoplay_score, floored
\* at 0, in hundredths of a point.
AdFormula ==
    LET q == 10000 - 500 * html.ad_hits - sig.ad_placement - sig.autoplay
    IN  IF q < 0 THEN 0 ELSE q

\* C15 as stated: for every markup, the empty string included, and every
\* DOM, score_ad_experience returns the floored formula; 5 hits without
\* placement or autoplay penalty give 75.
C15_AdFormulaForEveryHtml ==
    pc = "fn_done" =>
        /\ scores["ad_experience"] = AdFormula
        /\ html.ad_hits = 5 /\ sig.ad_placement = 0 /\ sig.autoplay = 0 =>
              scores["ad_experience"] = 7500

\* C15: for every non-empty markup and every DOM score_ad_experience returns
\* the floored formula, 5 hits without placement or autoplay penalty giving
\* 75; for the empty string it returns 0.
C15_AdFormulaForNonEmptyHtml ==
    pc = "fn_done" =>
        /\ html.len > 0 => scores["ad_experience"] = AdFormula
        /\ html.len = 0 => scores["ad_experience"] = 0
        /\ html.ad_hits = 5 /\ sig.ad_placement = 0 /\ sig.autoplay = 0 =>
              scores["ad_experience"] = 7500

\* C15 witness: markup with 5 indicator hits on a DOM without placement or
\* autoplay penalty was scored 75.
C15_Witness ==
    /\ pc = "fn_done"
    /\ html.ad_hits = 5
    /\ ~IsNone(soup)
    /\ sig.ad_placement = 0 /\ sig.autoplay = 0
    /\ scores["ad_experience"] = 7500

\* The terms of the SEO sum that are read from the DOM (none when the DOM
\* is absent), in hundredths of a point.
SeoDomTerms ==
    IF IsNone(soup) THEN 0
    ELSE (IF 30 <= soup.title_len /\ soup.title_len <= 60 THEN 1000 ELSE 0)
         + (IF 120 <= soup.desc_len /\ soup.desc_len <= 160 THEN 1000 ELSE 0)
         + (IF soup.hs[1] = 1 THEN 500 ELSE 0)
         + (IF 3 * soup.jsonld < 10 THEN 300 * soup.jsonld ELSE 1000)

\* 15 + the DOM terms + 10 if indexed + keyword, linking, freshness and URL
\* structure scores.
SeoSum ==
    1500 + SeoDomTerms
    + (IF "indexed" \in DOMAIN aux["seo"] /\ aux["seo"]["indexed"]
       THEN 1000 ELSE 0)
    + sig.keyword_analysis.keyword_score
    + sig.internal_linking.linking_score
    + sig.content_freshness.freshness_score
    + sig.url_structure

\* C16 as stated: for every input score_seo_keywords returns the sum capped
\* at 100, the 15-point base included, so it is never below 15.
C16_SeoFormulaForEveryInput ==
    pc = "fn_done" =>
        /\ scores["seo_keywords"] = (IF SeoSum > 10000 THEN 10000 ELSE SeoSum)
        /\ scores["seo_keywords"] >= 1500

\* C16: when the DOM is present score_seo_keywords returns the sum capped at
\* 100, the 15-point base included, so it is at least 15; when the DOM is
\* absent it returns 0.
C16_SeoFormulaWithDom ==
    pc = "fn_done" =>
        /\ ~IsNone(soup) =>
              /\ scores["seo_keywords"] =
                    (IF SeoSum > 10000 THEN 10000 ELSE SeoSum)
              /\ scores["seo_keywords"] >= 1500
        /\ IsNone(soup) => scores["seo_keywords"] = 0

\* C16 witness: a page whose sum exceeds 100 was scored 100.
C16_Witness ==
    /\ pc = "fn_done"
    /\ ~IsNone(soup)
    /\ SeoSum > 10000
    /\ scores["seo_keywords"] = 10000

\* The formulas that returned a positive value for the text.
CountedFormulas ==
    { f \in FormulaNames : f \notin text.fx_failed /\ text.fx[f] > 0 }

\* A formula's value on the 0-100 scale, in hundredths of a point.
OnScale(f) ==
    LET v == IF f = "flesch_reading_ease" THEN text.fx[f]
             ELSE 10000 - 5 * text.fx[f]
    IN  IF v < 0 THEN 0 ELSE IF v > 10000 THEN 10000 ELSE v

AverageOfCounted ==
    IF CountedFormulas = {} THEN 5000
    ELSE SumOver([ f \in CountedFormulas |-> OnScale(f) ], CountedFormulas)
         \div Cardinality(CountedFormulas)

\* 80, 60 or 40 by the mean number of words per sentence.
SentenceHeuristic ==
    IF text.words <= 15 * text.sentences THEN 8000
    ELSE IF text.words <= 25 * text.sentences THEN 6000
    ELSE 4000

LongEnough == text.len > 0 /\ text.stripped >= 100

\* C17 as stated: for text of at least 100 characters, a formula that fails
\* is left out of the average and the others count; when all six formulas
\* fail, or the stage fails as a whole, the result is the sentence-length
\* heuristic.
C17_AllFormulasFailingGivesHeuristic ==
    pc = "fn_done" /\ LongEnough =>
        /\ ~text.stage_error /\ text.fx_failed # FormulaNames =>
              scores["readability"] = AverageOfCounted
        /\ text.stage_error \/ text.fx_failed = FormulaNames =>
              scores["readability"] = SentenceHeuristic

\* C17: for text of at least 100 characters, a formula that fails is left
\* out of the average and the others count; when all six formulas fail the
\* result is the neutral 50; the sentence-length heuristic is the result
\* only when the stage fails outside the per-formula handlers.
C17_AllFormulasFailingGivesNeutral ==
    pc = "fn_done" /\ LongEnough =>
        /\ ~text.stage_error => scores["readability"] = AverageOfCounted
        /\ ~text.stage_error /\ text.fx_failed = FormulaNames =>
              scores["readability"] = 5000
        /\ text.stage_error => scores["readability"] = SentenceHeuristic

\* C17 witness: a 1500-word text on which all six formulas failed was
\* scored 50 where the heuristic gives 60.
C17_Witness ==
    /\ pc = "fn_done"
    /\ LongEnough
    /\ text.words = 1500
    /\ text.fx_failed = FormulaNames
    /\ ~text.stage_error
    /\ SentenceHeuristic = 6000
    /\ scores["readability"] = 5000

-----------------------------------------------------------------------------
(* Further properties of the analyze() pipeline (Spec) *)

Produced == ExtractSignals(text, soup, html, url)

\* C18 as stated: once the signal dictionaries are produced no later step
\* of analyze() changes them, so every dictionary of free_data_sources has
\* exactly the keys and values its collector or extractor returned.
C18_SignalDictionariesUnmodified ==
    pc \in { "aggregate", "recommend", "done" } =>
        /\ \A c \in Collectors : free_data[c] = Passed(c)
        /\ \A k \in DOMAIN Produced : free_data[k] = Produced[k]

\* C18 witness: a bundle was returned whose social dictionary, empty when
\* the collector failed, holds a social_score, and whose keyword_analysis
\* holds a seo_score next to the extractor's keys.
C18_Witness ==
    /\ pc = "done"
    /\ "social" \in failed
    /\ free_data["social"] # EmptyDict
    /\ "social_score" \in DOMAIN free_data["social"]
    /\ "seo_score" \in DOMAIN free_data["keyword_analysis"]
    /\ "seo_score" \notin DOMAIN Produced["keyword_analysis"]

-----------------------------------------------------------------------------
(* Further properties of generate_recommendations (SpecRec) *)

\* The data-driven messages of a returned list, in the order they hold in it.
DataDrivenPart(recs) == SelectSeq(recs, LAMBDA m : ~IsCriterionMessage(m))

\* The messages of a returned list worded from criterion c's templates.
CriterionPart(recs, c) == SelectSeq(recs, LAMBDA m : m.text \in TemplatesOf(c))

\* The ScoreSet a second call is made with.
OtherScores == [ c \in Criteria |-> 6550 ]

\* C19: the data-driven messages of the returned list are the same, in the
\* same order, as those of a second call with another ScoreSet and the same
\* free_data; the message of each criterion is the same as that of a second
\* call with an empty signal bundle and a ScoreSet that agrees with scores
\* on that criterion only.  Every call is compared with the same second
\* call, so any two calls agree with each other.
C19_RulesReadOnlyTheirInput ==
    pc = "rec_done" =>
        /\ DataDrivenPart(GenerateRecommendations(OtherScores, free_data))
               = DataDrivenPart(recommendations)
        /\ \A c \in Criteria :
              CriterionPart(GenerateRecommendations(
                      [ OtherScores EXCEPT ![c] = scores[c] ], EmptyDict), c)
                  = CriterionPart(recommendations, c)

\* C19 witness: a list with data-driven and criterion messages was returned
\* for a ScoreSet and a bundle other than those of the second call, and the
\* second call with the same bundle returns a different list.
C19_Witness ==
    /\ pc = "rec_done"
    /\ \A c \in Criteria : scores[c] # OtherScores[c]
    /\ free_data # EmptyDict
    /\ Len(DataDrivenPart(recommendations)) >= 5
    /\ \A c \in Criteria : Len(CriterionPart(recommendations, c)) = 1
    /\ GenerateRecommendations(OtherScores, free_data) # recommendations

\* The messages of a list as tier and wording.
Wordings(recs) == { << recs[i].tier, recs[i].text >> : i \in 1..Len(recs) }

\* C20: no message, taken as tier and wording, occurs twice in the list
\* generate_recommendations returns.
C20_NoMessageTwice ==
    pc = "rec_done" =>
        Cardinality(Wordings(recommendations)) = Len(recommendations)

\* C20 witness: a list was returned that holds both mobile messages, the
\* nine criterion messages and at least twenty messages in all.
C20_Witness ==
    /\ pc = "rec_done"
    /\ DOMAIN scores = Criteria
    /\ Len(recommendations) >= 20
    /\ << CRITICAL, "Missing viewport meta tag" >> \in Wordings(recommendations)
    /\ << MEDIUM, "Improve mobile-friendliness" >> \in Wordings(recommendations)

-----------------------------------------------------------------------------
(* Order of the steps of analyze() (Spec) *)

\* What has been produced so far is produced in the order load, collectors,
\* extractors, scorers, overall score, recommendations.
ProducedInOrder ==
    /\ aux # EmptyDict => Truthy(soup) /\ DOMAIN aux = Collectors
    /\ sig # EmptyDict => aux # EmptyDict
    /\ scores # EmptyDict => sig # EmptyDict /\ DOMAIN scores = Criteria
    /\ free_data # EmptyDict => scores # EmptyDict
    /\ overall_score # Unset => free_data # EmptyDict
    /\ recommendations # << >> => overall_score # Unset
    /\ pc = "done" =>
          /\ overall_score # Unset
          /\ recommendations = GenerateRecommendations(scores, free_data)

\* Within one call nothing flows backwards: once the collectors have run the
\* page data is not loaded again, and the collectors' failures, the scores,
\* the signals of the bundle and the overall score keep the value they were
\* given.
NothingFlowsBack ==
    run' = run =>
        /\ aux # EmptyDict => UNCHANGED << analyzerVars, failed >>
        /\ scores # EmptyDict => scores' = scores
        /\ free_data # EmptyDict => free_data' = free_data
        /\ overall_score # Unset => overall_score' = overall_score
        /\ recommendations # << >> => recommendations' = recommendations

\* C21: in one analyze() run the page is loaded, then the five collectors
\* complete or fail, then the extractors run, then the nine scorers, then the
\* overall score, then the recommendations; no score exists before every
\* collector has finished, and the recommendations of the returned bundle
\* are those generated from the bundle's scores and signals.
C21_StepsInOrder == []ProducedInOrder /\ [][NothingFlowsBack]_vars

\* C21 witness: a call whose browser loader failed and whose HTTP loader
\* succeeded returned a bundle, with a collector having failed.
C21_Witness ==
    /\ pc = "done"
    /\ Len(hist.attempts) = 2
    /\ failed # {}
    /\ Len(recommendations) >= 9
    /\ overall_score # Unset

-----------------------------------------------------------------------------
(* Further properties of the scorers as functions (SpecFn) *)

\* The formulas of the dictionary passed to normalize_readability_scores
\* whose value is positive.
PositiveFormulas ==
    { f \in DOMAIN sig.readability_details : sig.readability_details[f] > 0 }

\* A passed value on the 0-100 scale: the ease score clamped, a grade-level
\* metric as max(0, 100 - 5 x metric).
Scaled(f) ==
    LET v == sig.readability_details[f]
    IN  IF f = "flesch_reading_ease"
        THEN (IF v > 10000 THEN 10000 ELSE IF v < 0 THEN 0 ELSE v)
        ELSE (IF 10000 - 5 * v < 0 THEN 0 ELSE 10000 - 5 * v)

\* C22: normalize_readability_scores returns the average, over the formulas
\* whose value is positive, of the ease score clamped to [0,100] and of
\* max(0, 100 - 5 x metric) for the five grade-level metrics; a formula whose
\* value is not positive or whose key is missing is not in the denominator;
\* the result is 50 when no formula is positive and lies in [0,100];
\* score_readability returns 50 for a text shorter than 100 characters after
\* stripping.
C22_AverageOfPositiveFormulas ==
    /\ pc = "norm_done" =>
          /\ scores["readability"] =
                 IF PositiveFormulas = {} THEN 5000
                 ELSE SumOver([ f \in PositiveFormulas |-> Scaled(f) ],
                              PositiveFormulas)
                      \div Cardinality(PositiveFormulas)
          /\ scores["readability"] >= 0
          /\ scores["readability"] <= 10000
    /\ pc = "fn_done" /\ text.stripped < 100 => scores["readability"] = 5000

\* C22 witness: a dictionary without the ease score, holding a metric of 0
\* and four positive metrics, one of them above 20, was scored 0.
C22_Witness ==
    /\ pc = "norm_done"
    /\ "flesch_reading_ease" \notin DOMAIN sig.readability_details
    /\ \E f \in DOMAIN sig.readability_details : sig.readability_details[f] = 0
    /\ \E f \in PositiveFormulas : sig.readability_details[f] > 2000
    /\ Cardinality(PositiveFormulas) = 4
    /\ scores["readability"] = 0

\* The smaller of a component and its cap, in hundredths of a point.
Capped(cap, v) == IF v < cap * 100 THEN v ELSE cap * 100

\* word_count / 100, in hundredths of a point, is the number of words.
DepthPart == Capped(30, text.words)

StructurePart ==
    Capped(25, 200 * (soup.hs[1] + soup.hs[2] + soup.hs[3]
                      + soup.hs[4] + soup.hs[5] + soup.hs[6]))

MediaPart == Capped(20, 150 * (soup.img + soup.a))

CitationPart == Capped(25, sig.citation_analysis.citation_score)

\* C23: score_informativeness is 0 when the text is empty or the DOM is
\* absent, and otherwise min(30, word_count/100) + min(25, 2 x headers)
\* + min(20, 1.5 x (images + links)) + min(25, citation_score), with no
\* clamping at 100; it is 100 exactly when the four components are at their
\* caps.
C23_InformativenessIsSumOfCappedParts ==
    pc = "fn_done" =>
        IF text.len = 0 \/ IsNone(soup)
        THEN scores["informativeness"] = 0
        ELSE /\ scores["informativeness"] =
                    DepthPart + StructurePart + MediaPart + CitationPart
             /\ scores["informativeness"] = 10000 <=>
                    /\ DepthPart = 3000
                    /\ StructurePart = 2500
                    /\ MediaPart = 2000
                    /\ CitationPart = 2500

\* C23 witness: a text of more than 3000 words on a page whose headers,
\* media and citations all exceed their caps was scored 100.
C23_Witness ==
    /\ pc = "fn_done"
    /\ text.words > 3000
    /\ ~IsNone(soup)
    /\ 150 * (soup.img + soup.a) > 2000
    /\ sig.citation_analysis.citation_count * 2 > 25
    /\ StructurePart = 2500
    /\ scores["informativeness"] = 10000

\* A flag of a collector's dictionary; a missing key counts as unset.
Flag(d, k) == k \in DOMAIN d /\ d[k]

\* 40 plus the bonuses and the three design scores, in hundredths of a point.
LayoutSum ==
    4000
    + (IF Flag(aux["mobile"], "has_viewport") THEN 1000 ELSE 0)
    + (IF Flag(aux["mobile"], "handheld_friendly") THEN 500 ELSE 0)
    + (IF Flag(aux["mobile"], "touch_optimized") THEN 500 ELSE 0)
    + (IF Flag(aux["security"], "https") THEN 1000 ELSE 0)
    + (IF ~IsNone(soup) /\ soup.hs[1] = 1 THEN 500 ELSE 0)
    + sig.design.whitespace_score
    + sig.design.typography_score
    + sig.design.color_contrast_score

\* C24: score_layout_quality is min(100, 40 + 10 for has_viewport + 5 for
\* handheld_friendly + 5 for touch_optimized + 10 for https + 5 for exactly
\* one h1 + whitespace_score + typography_score + color_contrast_score), for
\* empty mobile and security dictionaries and an absent DOM as well; the
\* value lies in [40,100] and visual_hierarchy_score is not part of it.
C24_LayoutFormula ==
    pc = "fn_done" =>
        /\ scores["layout_quality"] =
               IF LayoutSum > 10000 THEN 10000 ELSE LayoutSum
        /\ scores["layout_quality"] >= 4000
        /\ scores["layout_quality"] <= 10000
        /\ aux["mobile"] = EmptyDict /\ aux["security"] = EmptyDict
             /\ IsNone(soup) => scores["layout_quality"] = 4000

\* C24 witness: a page with several heading levels and a handheld-friendly
\* tag was scored below 100, its visual hierarchy score left out.
C24_Witness ==
    /\ pc = "fn_done"
    /\ ~IsNone(soup)
    /\ sig.design.visual_hierarchy_score > 0
    /\ Flag(aux["mobile"], "handheld_friendly")
    /\ scores["layout_quality"] = LayoutSum
    /\ scores["layout_quality"] < 10000

\* The number of reference sections of the page, 0 without a DOM.
ReferenceSections == IF IsNone(soup) THEN 0 ELSE soup.refs

\* min(25, 2 x citations + 5 x reference sections), in hundredths of a point.
CitationFormula ==
    Capped(25, 100 * (2 * text.cites + 5 * ReferenceSections))

\* C25 as stated: for every input, empty text included, analyze_citations
\* reports the pattern matches as citation_count, the reference sections as
\* source_count, and min(25, 2 x citation_count + 5 x reference_sections) as
\* citation_score.
C25_CitationFormulaForEveryInput ==
    pc = "fn_done" =>
        /\ sig.citation_analysis.citation_count = text.cites
        /\ sig.citation_analysis.source_count = ReferenceSections
        /\ sig.citation_analysis.citation_score = CitationFormula

\* C25: for non-empty text, analyze_citations reports the pattern matches as
\* citation_count, the reference sections as source_count (0 without a DOM)
\* and min(25, 2 x citation_count + 5 x reference_sections) as
\* citation_score; for empty text all three are 0, whatever the DOM holds.
C25_CitationFormulaForText ==
    pc = "fn_done" =>
        IF text.len > 0
        THEN /\ sig.citation_analysis.citation_count = text.cites
             /\ sig.citation_analysis.source_count = ReferenceSections
             /\ sig.citation_analysis.citation_score = CitationFormula
        ELSE sig.citation_analysis =
                 [citation_count |-> 0, source_count |-> 0, citation_score |-> 0]

\* C25 witness: empty text on a page with three reference sections was
\* given source_count 0 and citation_score 0, where the formula gives 15.
C25_Witness ==
    /\ pc = "fn_done"
    /\ text.len = 0
    /\ ~IsNone(soup)
    /\ soup.refs = 3
    /\ CitationFormula = 1500
    /\ sig.citation_analysis.source_count = 0
    /\ sig.citation_analysis.citation_score = 0

\* 50 + 3 x (positive - negative), clamped to [0,100].
SentimentPart ==
    LET v == 5000 + 300 * (text.pos - text.neg)
    IN  IF v < 0 THEN 0 ELSE IF v > 10000 THEN 10000 ELSE v

\* min(30, 2 x questions + 1.5 x exclamations + 2 x CTA matches)
InteractionPart ==
    Capped(30, 200 * text.questions + 150 * text.exclamations + 200 * text.cta)

\* C26: score_engagement is 0 for empty text and otherwise min(100,
\* sentiment + interaction + skimming_score); skimming_score lies in [0,40]
\* and is 0 without a DOM; non-empty text with no more negative than positive
\* sentiment words scores at least 50.
C26_EngagementFormula ==
    pc = "fn_done" =>
        /\ sig.skimming >= 0
        /\ sig.skimming <= 4000
        /\ IsNone(soup) => sig.skimming = 0
        /\ scores["engagement"] =
               IF text.len = 0 THEN 0
               ELSE Capped(100, SentimentPart + InteractionPart + sig.skimming)
        /\ text.len > 0 /\ text.neg <= text.pos => scores["engagement"] >= 5000

\* C26 witness: a text with more negative than positive words, its sentiment
\* clamped to 0, on a page whose skimming elements exceed 40, was scored
\* below 50.
C26_Witness ==
    /\ pc = "fn_done"
    /\ text.len > 0
    /\ 5000 + 300 * (text.pos - text.neg) < 0
    /\ ~IsNone(soup)
    /\ sig.skimming = 4000
    /\ scores["engagement"] = InteractionPart + 4000
    /\ scores["engagement"] < 5000

-----------------------------------------------------------------------------
(* The data-driven rules in a result of analyze() (Spec) *)

Emitted(tier, wording) ==
    \E i \in 1..Len(recommendations) :
        /\ recommendations[i].tier = tier
        /\ recommendations[i].text = wording

\* C27 as stated: in a result of analyze() the MEDIUM message "No schema
\* markup found" is emitted exactly when the page has no JSON-LD script, the
\* LOW message "Good start with schema markup" exactly when it has one, and
\* neither when it has two or more.
C27_SchemaRuleReflectsPage ==
    pc = "done" =>
        /\ Emitted(MEDIUM, "No schema markup found") <=> soup.jsonld = 0
        /\ Emitted(LOW, "Good start with schema markup") <=> soup.jsonld = 1

\* C27 witness: the bundle of a page with four JSON-LD scripts holds the
\* message "No schema markup found".
C27_Witness ==
    /\ pc = "done"
    /\ soup.jsonld = 4
    /\ Emitted(MEDIUM, "No schema markup found")
    /\ ~Emitted(LOW, "Good start with schema markup")

-----------------------------------------------------------------------------
(* The keyword scorer and the keyword rule on one page (SpecScore) *)

KeywordWordings ==
    { "Keyword density too low", "Keyword density is low",
      "Keyword density too high", "Keyword density is slightly high" }

\* C28 as stated: when the keyword_score of the bundle's keyword_analysis is
\* 15 the recommendations hold no keyword-density message, and when they
\* hold "Keyword density too low" or "Keyword density too high" the
\* keyword_score is not 15.
C28_KeywordScoreAndRuleAgree ==
    pc = "done" =>
        LET ka == free_data["keyword_analysis"]
        IN  /\ ka.keyword_score = 1500 =>
                  \A i \in 1..Len(recommendations) :
                      recommendations[i].text \notin KeywordWordings
            /\ Emitted(HIGH, "Keyword density too low")
                 \/ Emitted(MEDIUM, "Keyword density too high") =>
                  ka.keyword_score # 1500

\* C28 witness: a text whose counted words are all among its ten most
\* frequent ones has keyword_density 100.00, keyword_score 15 and the
\* message "Keyword density too high".
C28_Witness ==
    /\ pc = "done"
    /\ text.kw_total > 0
    /\ text.kw_top = text.kw_total
    /\ free_data["keyword_analysis"].keyword_density = 10000
    /\ free_data["keyword_analysis"].keyword_score = 1500
    /\ Emitted(MEDIUM, "Keyword density too high")

-----------------------------------------------------------------------------
(* Page acquisition and the analyzer's page state (Spec) *)

\* The next analyze() call after one that raised starts with a loader.
FetchedAgain ==
    pc = "raised" /\ pc' # "raised" => pc' \in { "playwright", "requests" }

\* C29 as stated: whenever analyze() has raised because the page could not
\* be acquired, self.soup is None, and the next analyze() call on the
\* analyzer runs a loader again.
C29_FailedAnalyzeLeavesNoPage ==
    [](pc = "raised" => IsNone(soup)) /\ [][FetchedAgain]_vars

\* C29 witness: analyze() raised after the browser loader failed while
\* closing the browser and the HTTP loader failed, and self.soup holds the
\* page the browser loader parsed.
C29_Witness ==
    /\ pc = "raised"
    /\ hist.attempts = << << "playwright", "close_raises" >>,
                          << "requests", "raises" >> >>
    /\ soup = web.dynamic.soup
    /\ ~IsNone(soup)

\* The current analyze() call fell back from the browser loader to the HTTP
\* loader, which succeeded.
FellBack ==
    /\ Len(hist.attempts) = 2
    /\ hist.attempts[1][1] = "playwright"
    /\ hist.attempts[2] = << "requests", "ok" >>

\* A performance dictionary that holds nothing the browser collected.
NothingFromBrowser(d) ==
    /\ "source" \in DOMAIN d => d["source"] # "playwright_cdp"
    /\ DOMAIN d \cap (DOMAIN BrowserMetrics \ { "load_time" }) = {}
    /\ "load_time" \in DOMAIN d => d["load_time"] = web.http_time

\* C30: after analyze() fell back to the HTTP loader, html, text, DOM and
\* load_time are those of the HTTP fetch and performance_metrics is None,
\* and the performance data collected and reported has neither the source
\* playwright_cdp nor a metric collected by the browser.
C30_FallbackUsesOnlyHttpData ==
    FellBack =>
        /\ html = web.static.html
        /\ text = web.static.text
        /\ soup = web.static.soup
        /\ load_time = web.http_time
        /\ IsNone(performance_metrics)
        /\ aux # EmptyDict => NothingFromBrowser(aux["performance"])
        /\ free_data # EmptyDict => NothingFromBrowser(free_data["performance"])

\* C30 witness: the browser loader stored its metrics and parsed the page
\* before it failed while closing the browser, and the bundle returned after
\* the fallback reports the HTTP timing with source basic_timing.
C30_Witness ==
    /\ pc = "done"
    /\ FellBack
    /\ hist.attempts[1][2] = "close_raises"
    /\ web.metrics = BrowserMetrics
    /\ web.dynamic # web.static
    /\ "performance" \notin failed
    /\ free_data["performance"] =
           [ load_time |-> web.http_time, source |-> "basic_timing" ]

====
